---- MODULE Spec2Model ----
(***************************************************************************)
(* ListHub: the Git Smart HTTP gateway (git_backend.py) together with the  *)
(* parts of the application it reads (user directory, API keys), the       *)
(* registration handler that provisions repositories, and the item API     *)
(* (api.py) with its tables.                                               *)
(*                                                                         *)
(* Text is modelled as sequences of one-character strings, so that         *)
(* len(), str.isalnum(), str.lower(), str.strip() and '%04x' formatting    *)
(* are computed rather than assumed.  Secrets (passwords, raw API keys,    *)
(* the admin token) are opaque strings; their digests are tagged pairs.    *)
(***************************************************************************)
EXTENDS Integers, Sequences, FiniteSets, TLC

VARIABLES
    user,         \* rows of table "user":    [id, username, password_hash]
    api_key,      \* rows of table "api_key": [user_id, key_hash, scopes]
    item,         \* table "item": id |-> [owner_id, title, content, visibility, revision]
    item_tag,     \* rows of table "item_tag": <<item_id, tag>>
    item_version, \* rows of table "item_version" in the order of their id:
                  \* [item_id, content, revision]
    share,        \* rows of table "share": [item_id, shared_with, permission]
    ADMIN_TOKEN,  \* git_backend.ADMIN_TOKEN, read from the environment at start
    BASE_URL,     \* git_backend.BASE_URL,    read from the environment at start
    repos,        \* the filesystem: path of a directory |-> state of that directory
    reqs          \* the requests in flight: slot |-> handler state

vars == <<user, api_key, item, item_tag, item_version, share,
          ADMIN_TOKEN, BASE_URL, repos, reqs>>
itemVars == <<item, item_tag, item_version, share>>
dbVars == <<user, api_key, itemVars>>
cfgVars == <<ADMIN_TOKEN, BASE_URL>>

----------------------------------------------------------------------------
(* Bounds                                                                  *)

\* number of handler slots (requests that can be in flight at once)
MaxReq == 2

Slots == 1..MaxReq

----------------------------------------------------------------------------
(* Text                                                                    *)

Lowercase == {"a", "b", "c", "e", "g", "i", "k", "l", "o", "p", "r", "s",
              "t", "u", "v", "d", "f"}
Uppercase == {"A", "C"}
Digits == {"0", "1", "2", "3", "4", "5", "6", "7", "8", "9"}
Whitespace == {" "}

\* str.isalnum() on one character
IsAlnumChar(c) == c \in Lowercase \cup Uppercase \cup Digits

\* str.isalnum(): non-empty and every character alphanumeric
IsAlnum(s) == Len(s) > 0 /\ \A i \in 1..Len(s) : IsAlnumChar(s[i])

\* str.lower() on one character
LowerChar(c) == CASE c = "A" -> "a"
                  [] c = "C" -> "c"
                  [] OTHER -> c

\* str.lower()
Lower(s) == [i \in 1..Len(s) |-> LowerChar(s[i])]

\* str.strip(): drop leading and trailing whitespace
RECURSIVE LStrip(_)
LStrip(s) == IF s # <<>> /\ Head(s) \in Whitespace THEN LStrip(Tail(s)) ELSE s

RECURSIVE RStrip(_)
RStrip(s) == IF s # <<>> /\ s[Len(s)] \in Whitespace
             THEN RStrip(SubSeq(s, 1, Len(s) - 1)) ELSE s

Strip(s) == RStrip(LStrip(s))

alice == <<"a", "l", "i", "c", "e">>
carol == <<"c", "a", "r", "o", "l">>

GitUploadPack == <<"g", "i", "t", "-", "u", "p", "l", "o", "a", "d", "-",
                   "p", "a", "c", "k">>
GitReceivePack == <<"g", "i", "t", "-", "r", "e", "c", "e", "i", "v", "e", "-",
                    "p", "a", "c", "k">>
\* a service value that is neither of the two
GitFoo == <<"g", "i", "t", "-", "f", "o", "o">>

\* the only other username requests present; it is never registered
bob == <<"b", "o", "b">>

----------------------------------------------------------------------------
(* Secrets and digests                                                     *)

\* bcrypt.hashpw(password, salt): the digest determines the password
Bcrypt(password) == <<"bcrypt", password>>

\* bcrypt.checkpw(password, digest)
CheckPw(password, digest) == digest = Bcrypt(password)

hash_api_key(raw_key) == <<"sha256", raw_key>>

\* len(password) for the passwords the model uses
PasswordLen(p) == CASE p = "S3cret!!" -> 8
                    [] p = "admintok" -> 8
                    [] p = "short" -> 5
                    [] OTHER -> 0

\* the result of a lookup that finds no row
None == [id |-> <<>>, username |-> <<>>, password_hash |-> <<>>]

\* the absence of an Authorization header
NoAuth == [password |-> "", username |-> <<>>, present |-> FALSE]

BasicAuth(u, p) == [password |-> p, username |-> u, present |-> TRUE]

\* User.get_by_username: username is UNIQUE, so at most one row matches
get_by_username(username) ==
    IF \E u \in user : u.username = username
    THEN CHOOSE u \in user : u.username = username
    ELSE None

\* variant: the API-key lookup is not restricted to the named user
CheckBasicAuth_AnyOwner(auth) ==
    IF ~auth.present \/ auth.username = <<>> \/ auth.password = ""
    THEN None
    ELSE LET u == get_by_username(auth.username) IN
         IF u = None THEN None
         ELSE IF CheckPw(auth.password, u.password_hash) THEN u
         ELSE IF \E k \in api_key : k.key_hash = hash_api_key(auth.password)
              THEN u
              ELSE None

\* variant: the admin token is accepted as the secret of any known username
CheckBasicAuth_AdminToken(auth) ==
    IF ~auth.present \/ auth.username = <<>> \/ auth.password = ""
    THEN None
    ELSE LET u == get_by_username(auth.username) IN
         IF u = None THEN None
         ELSE IF ADMIN_TOKEN # "" /\ auth.password = ADMIN_TOKEN THEN u
         ELSE IF CheckPw(auth.password, u.password_hash) THEN u
         ELSE IF \E k \in api_key : /\ k.key_hash = hash_api_key(auth.password)
                                    /\ k.user_id = u.id
              THEN u
              ELSE None

\* _check_basic_auth: the User the Basic credentials prove, or None
CheckBasicAuth(auth) ==
    IF ~auth.present \/ auth.username = <<>> \/ auth.password = ""
    THEN None
    ELSE LET u == get_by_username(auth.username) IN
         IF u = None THEN None
         ELSE IF CheckPw(auth.password, u.password_hash) THEN u
         ELSE IF \E k \in api_key : /\ k.key_hash = hash_api_key(auth.password)
                                    /\ k.user_id = u.id
              THEN u
              ELSE None

\* variant: the identity check is made only when the URL names a registered user
RequireAuthStatus_KnownOnly(username, auth) ==
    LET u == CheckBasicAuth(auth) IN
    IF u = None THEN 401
    ELSE IF u.username # username /\ get_by_username(username) # None THEN 403
    ELSE 0

\* variant: the identity check against the URL is skipped
RequireAuthStatus_NoMatch(username, auth) ==
    IF CheckBasicAuth(auth) = None THEN 401 ELSE 0

\* variant: the identity check comes first
RequireAuthStatus_MatchFirst(username, auth) ==
    IF auth.present /\ auth.username # username THEN 403
    ELSE IF CheckBasicAuth(auth) = None THEN 401
    ELSE 0

\* _require_auth: 401, 403, or 0 when the handler goes on
RequireAuthStatus(username, auth) ==
    LET u == CheckBasicAuth(auth) IN
    IF u = None THEN 401
    ELSE IF u.username # username THEN 403
    ELSE 0

----------------------------------------------------------------------------
(* Repositories on disk                                                    *)

REPO_ROOT == <<"/", "r">>

DotGit == <<".", "g", "i", "t">>

\* variant: the username is used as it is
Safe_Unfiltered(username) == username

\* ''.join(c for c in username if c.isalnum())
Safe(username) == SelectSeq(username, IsAlnumChar)

\* os.path.join(a, b): an absolute b replaces a
PathJoin(a, b) == IF b # <<>> /\ Head(b) = "/" THEN b ELSE a \o <<"/">> \o b

\* variant: the location depends on the settings the server was started with
RepoPath_PerSetting(username) ==
    PathJoin(REPO_ROOT, Safe(username) \o
                        (IF ADMIN_TOKEN = "" THEN DotGit ELSE <<".", "2">>))

\* variant: every identity is given the same directory
RepoPath_Shared(username) == PathJoin(REPO_ROOT, DotGit)

\* _repo_path
RepoPath(username) == PathJoin(REPO_ROOT, Safe(username) \o DotGit)

\* os.path.isdir
IsDir(path) == path \in DOMAIN repos

NoConf == [present |-> FALSE, LISTHUB_USERNAME |-> <<>>,
           LISTHUB_BASE_URL |-> "", LISTHUB_ADMIN_TOKEN |-> ""]

\* a directory that os.makedirs has just created
EmptyDir == [bare |-> FALSE, HEAD |-> "", receivepack |-> FALSE,
             hook |-> FALSE, conf |-> NoConf]

\* variant: the file is written with the settings of a server started without
\* environment
HookConf_Defaults(username) ==
    [present |-> TRUE, LISTHUB_USERNAME |-> username,
     LISTHUB_BASE_URL |-> "http://localhost:3200", LISTHUB_ADMIN_TOKEN |-> ""]

\* what _install_hook writes to hooks/listhub.conf
HookConf(username) ==
    [present |-> TRUE, LISTHUB_USERNAME |-> username,
     LISTHUB_BASE_URL |-> BASE_URL, LISTHUB_ADMIN_TOKEN |-> ADMIN_TOKEN]

\* a repository on which every step of init_user_repo has run
Provisioned(path) ==
    /\ IsDir(path)
    /\ repos[path].bare
    /\ repos[path].HEAD = "refs/heads/main"
    /\ repos[path].receivepack
    /\ repos[path].hook
    /\ repos[path].conf.present

----------------------------------------------------------------------------
(* Handlers.  A handler occupies a slot from the arrival of its request to *)
(* its response; pc is its position in the code.                           *)

Gateway == {"info_refs", "upload_pack", "receive_pack"}

\* variant: every value of the service parameter, and its absence, is accepted
Services_Any == {GitUploadPack, GitReceivePack, GitFoo, <<>>}

\* the values of the service parameter info_refs accepts
Services == {GitUploadPack, GitReceivePack}

CreationSteps == {"makedirs", "git_init", "set_head", "set_flag"}

\* the result of an item lookup that finds no row; the columns slug, file_path,
\* item_type and the timestamps are not modelled
NoRow == [owner_id |-> <<>>, title |-> "", content |-> <<>>,
          visibility |-> "", revision |-> 0]

\* a request without JSON body: request.get_json(silent=True) or {}
NoData == [title |-> "", content |-> <<>>, visibility |-> "", keys |-> {},
           entry |-> <<>>, tags |-> {}, shared_with |-> <<>>,
           permission |-> ""]

Idle == [username |-> <<>>, auth |-> NoAuth, tags |-> {}, kind |-> "idle",
         pc |-> "idle", hdr |-> <<>>, service |-> <<>>, status |-> 0,
         www_authenticate |-> "", content_type |-> <<>>, body |-> <<>>,
         ret |-> <<>>, raised |-> FALSE, absent |-> FALSE, existed |-> FALSE,
         made |-> {}, hooks |-> 0, runs |-> 0, ranAbsent |-> FALSE,
         ranPartial |-> FALSE, rc |-> 0, stdout |-> <<>>, stderr |-> "",
         repo |-> <<>>, session |-> <<>>, authorization |-> <<"", "">>,
         api_user |-> None, api_scopes |-> {}, item_id |-> "",
         data |-> NoData, row |-> NoRow]

\* the page the application renders for abort(code) and for an unhandled exception
ErrorPage(code) == <<"error.html", ToString(code)>>

\* the handler in slot r answers and ends
Respond(r, status, www_authenticate, body) ==
    reqs' = [reqs EXCEPT ![r].pc = "done", ![r].status = status,
                         ![r].www_authenticate = www_authenticate,
                         ![r].body = body]

Goto(r, pc) == reqs' = [reqs EXCEPT ![r].pc = pc]

\* variant: info_refs looks at the service parameter before the credentials
Following_ServiceFirst(kind, pc) ==
    CASE pc = "arrive" -> IF kind = "info_refs" THEN "service" ELSE "auth"
      [] pc = "service" -> "auth"
      [] OTHER -> "isdir"

\* the order of the first statements of an endpoint
Following(kind, pc) ==
    CASE pc = "arrive" -> "auth"
      [] pc = "auth" -> IF kind = "info_refs" THEN "service" ELSE "isdir"
      [] OTHER -> "isdir"

\* a gateway request arrives: route matching binds username from the URL
Arrive(r, kind, username, auth, hdr, service) ==
    /\ reqs[r].pc = "idle"
    /\ kind \in Gateway
    /\ reqs' = [reqs EXCEPT ![r] = [Idle EXCEPT !.kind = kind,
                                        !.pc = Following(kind, "arrive"),
                                        !.username = username, !.auth = auth,
                                        !.hdr = hdr, !.service = service]]
    /\ UNCHANGED <<dbVars, cfgVars, repos>>

\* auth_result = _require_auth(username), first statement of all three endpoints
RequireAuth(r) ==
    /\ reqs[r].pc = "auth"
    /\ LET st == RequireAuthStatus(reqs[r].username, reqs[r].auth) IN
       CASE st = 401 -> Respond(r, 401, "Basic realm=\"ListHub Git\"",
                                <<"Authentication required\n">>)
         [] st = 403 -> Respond(r, 403, "", ErrorPage(403))
         [] OTHER -> Goto(r, Following(reqs[r].kind, "auth"))
    /\ UNCHANGED <<dbVars, cfgVars, repos>>

\* info_refs: the service query parameter
CheckService(r) ==
    /\ reqs[r].pc = "service"
    /\ IF reqs[r].service \notin Services
       THEN Respond(r, 400, "", ErrorPage(400))
       ELSE Goto(r, Following(reqs[r].kind, "service"))
    /\ UNCHANGED <<dbVars, cfgVars, repos>>

\* variant: fetch provisions too
OnAbsent_AlwaysInit(kind) == "init_user_repo"

\* variant: nothing provisions
OnAbsent_NeverInit(kind) == IF kind = "upload_pack" THEN "abort404" ELSE "run"

\* what an endpoint does when os.path.isdir(repo) is false
OnAbsent(kind) == IF kind = "upload_pack" THEN "abort404" ELSE "init_user_repo"

\* variant: an endpoint calls init_user_repo on an existing directory too
OnPresent_AlwaysInit(kind) == IF kind = "upload_pack" THEN "run" ELSE "init_user_repo"

\* what an endpoint does when os.path.isdir(repo) is true
OnPresent(kind) == "run"

\* repo = _repo_path(username); if not os.path.isdir(repo): ...
CheckRepo(r) ==
    /\ reqs[r].pc = "isdir"
    /\ LET isdir == IsDir(RepoPath(reqs[r].username))
           todo == IF isdir THEN OnPresent(reqs[r].kind) ELSE OnAbsent(reqs[r].kind)
       IN
       CASE todo = "abort404" ->
              reqs' = [reqs EXCEPT ![r].pc = "done", ![r].status = 404,
                                   ![r].body = ErrorPage(404), ![r].absent = ~isdir]
         [] todo = "init_user_repo" ->
              reqs' = [reqs EXCEPT ![r].pc = "init_isdir", ![r].absent = ~isdir]
         [] OTHER ->
              reqs' = [reqs EXCEPT ![r].pc = "spawn", ![r].absent = ~isdir]
    /\ UNCHANGED <<dbVars, cfgVars, repos>>

----------------------------------------------------------------------------
(* init_user_repo and _install_hook, step by step                          *)

\* how a handler goes on when init_user_repo has returned
AfterInit(r) ==
    CASE reqs[r].kind \in Gateway ->
           reqs' = [reqs EXCEPT ![r].pc = "spawn", ![r].hooks = @ + 1,
                                ![r].ret = RepoPath(reqs[r].username)]
      [] reqs[r].kind = "register" ->
           reqs' = [reqs EXCEPT ![r].pc = "done", ![r].status = 302,
                                ![r].hooks = @ + 1,
                                ![r].ret = RepoPath(reqs[r].username)]
      [] OTHER ->
           reqs' = [reqs EXCEPT ![r].pc = "done", ![r].hooks = @ + 1,
                                ![r].ret = RepoPath(reqs[r].username)]

\* variant: the handler starts the creation over
Raise_Retry(r) == reqs' = [reqs EXCEPT ![r].pc = "makedirs"]

\* variant: the exception is swallowed and the handler goes on to the plumbing
Raise_Swallowed(r) ==
    reqs' = [reqs EXCEPT ![r].pc = "spawn", ![r].raised = TRUE]

\* how a handler goes on when a step of init_user_repo raises: an endpoint does not
\* catch it (the application answers 500), register() catches and ignores it
Raise(r) ==
    CASE reqs[r].kind \in Gateway ->
           reqs' = [reqs EXCEPT ![r].pc = "done", ![r].status = 500,
                                ![r].body = ErrorPage(500), ![r].raised = TRUE]
      [] reqs[r].kind = "register" ->
           reqs' = [reqs EXCEPT ![r].pc = "done", ![r].status = 302,
                                ![r].raised = TRUE]
      [] OTHER ->
           reqs' = [reqs EXCEPT ![r].pc = "done", ![r].raised = TRUE]

Did(r, step, pc) == reqs' = [reqs EXCEPT ![r].pc = pc, ![r].made = @ \cup {step}]

\* variant: the creation steps run on every call
InitCreates_Always(path) == TRUE

\* init_user_repo: "if not os.path.isdir(repo)"
InitCreates(path) == ~IsDir(path)

InitIsDir(r) ==
    /\ reqs[r].pc = "init_isdir"
    /\ reqs' = [reqs EXCEPT
                 ![r].pc = IF InitCreates(RepoPath(reqs[r].username))
                           THEN "makedirs" ELSE "hook",
                 ![r].existed = IsDir(RepoPath(reqs[r].username))]
    /\ UNCHANGED <<dbVars, cfgVars, repos>>

\* os.makedirs(repo, exist_ok=True); ok = FALSE: it raises OSError
MakeDirs(r, ok) ==
    /\ reqs[r].pc = "makedirs"
    /\ LET path == RepoPath(reqs[r].username) IN
       IF ok
       THEN /\ repos' = IF IsDir(path) THEN repos
                        ELSE [q \in DOMAIN repos \cup {path} |->
                                 IF q = path THEN EmptyDir ELSE repos[q]]
            /\ Did(r, "makedirs", "git_init")
       ELSE /\ Raise(r)
            /\ UNCHANGED repos
    /\ UNCHANGED <<dbVars, cfgVars>>

\* the directory the handler in slot r works on
DirOf(r) == IF IsDir(RepoPath(reqs[r].username))
            THEN repos[RepoPath(reqs[r].username)] ELSE EmptyDir

\* git init --bare on a directory: a repository that is already one keeps its HEAD
GitInitBare(dir) == IF dir.bare THEN dir
                    ELSE [dir EXCEPT !.bare = TRUE, !.HEAD = "refs/heads/master"]

\* a toolchain step of init_user_repo; check=True: a non-zero exit raises
GitStep(r, at, next, ok, result) ==
    /\ reqs[r].pc = at
    /\ LET path == RepoPath(reqs[r].username) IN
       IF ok /\ IsDir(path)
       THEN /\ repos' = [repos EXCEPT ![path] = result]
            /\ Did(r, at, next)
       ELSE /\ Raise(r)
            /\ UNCHANGED repos
    /\ UNCHANGED <<dbVars, cfgVars>>

\* subprocess.run(['git', 'init', '--bare', repo], check=True)
GitInit(r, ok) == GitStep(r, "git_init", "set_head", ok, GitInitBare(DirOf(r)))

SymbolicRefMain(dir) == [dir EXCEPT !.HEAD = "refs/heads/main"]

\* subprocess.run(['git', 'symbolic-ref', 'HEAD', 'refs/heads/main'], check=True)
SetHead(r, ok) == GitStep(r, "set_head", "set_flag", ok, SymbolicRefMain(DirOf(r)))

ConfigReceivePack(dir) == [dir EXCEPT !.receivepack = TRUE]

\* subprocess.run(['git', 'config', 'http.receivepack', 'true'], check=True)
SetFlag(r, ok) == GitStep(r, "set_flag", "hook", ok, ConfigReceivePack(DirOf(r)))

\* _install_hook(repo, username): copy the template, chmod +x, rewrite listhub.conf
InstallHook(r) ==
    /\ reqs[r].pc = "hook"
    /\ LET path == RepoPath(reqs[r].username) IN
       /\ IsDir(path)
       /\ repos' = [repos EXCEPT ![path].hook = TRUE,
                                 ![path].conf = HookConf(reqs[r].username)]
    /\ AfterInit(r)
    /\ UNCHANGED <<dbVars, cfgVars>>

----------------------------------------------------------------------------
(* The plumbing program and the responses built from its result            *)

HexDigit(d) == CASE d = 10 -> "a" [] d = 11 -> "b" [] d = 12 -> "c"
                 [] d = 13 -> "d" [] d = 14 -> "e" [] d = 15 -> "f"
                 [] OTHER -> ToString(d)

RECURSIVE Hex(_)
Hex(n) == IF n < 16 THEN <<HexDigit(n)>>
          ELSE Hex(n \div 16) \o <<HexDigit(n % 16)>>

RECURSIVE ZeroPad(_, _)
ZeroPad(s, width) == IF Len(s) < width THEN ZeroPad(<<"0">> \o s, width) ELSE s

\* f'{n:04x}'
Format04x(n) == ZeroPad(Hex(n), 4)

\* f'# service={service}\n'
ServiceLine(service) ==
    <<"#", " ", "s", "e", "r", "v", "i", "c", "e", "=">> \o service \o <<"\n">>

\* variant: the length prefix does not count its own four bytes
PktLine_NoPrefixCount(line) == Format04x(Len(line)) \o line

\* variant: the length is written in decimal
PktLine_Decimal(line) ==
    LET n == Len(line) + 4 IN
    ZeroPad(IF n < 10 THEN <<ToString(n)>>
            ELSE <<ToString(n \div 10), ToString(n % 10)>>, 4) \o line

\* pkt = f'{pkt_len:04x}{service_line}', pkt_len = len(service_line) + 4
PktLine(line) == Format04x(Len(line) + 4) \o line

FlushPkt == <<"0", "0", "0", "0">>

\* body = pkt.encode() + b'0000' + stdout
AdvertisementBody(service, stdout) ==
    PktLine(ServiceLine(service)) \o FlushPkt \o stdout

\* f'Git error: {stderr.decode()}\n'
GitError(stderr) == <<"Git error: ", stderr, "\n">>

\* variant: info_refs answers 500 only when there is no output either
InfoRefsResponse_EmptyOnly(service, rc, stdout, stderr) ==
    IF rc # 0 /\ stdout = <<>>
    THEN <<500, <<>>, GitError(stderr)>>
    ELSE <<200, <<"application/x-">> \o service \o <<"-advertisement">>,
           AdvertisementBody(service, stdout)>>

\* info_refs after proc.communicate(): <<status, content type, body>>
InfoRefsResponse(service, rc, stdout, stderr) ==
    IF rc # 0
    THEN <<500, <<>>, GitError(stderr)>>
    ELSE <<200, <<"application/x-">> \o service \o <<"-advertisement">>,
           AdvertisementBody(service, stdout)>>

\* variant: _run_git_service answers 500 on every non-zero exit
RunGitServiceResponse_AnyNonZero(content_type, rc, stdout, stderr) ==
    IF rc # 0
    THEN <<500, <<>>, GitError(stderr)>>
    ELSE <<200, content_type, stdout>>

\* _run_git_service after proc.communicate(): <<status, content type, body>>
RunGitServiceResponse(content_type, rc, stdout, stderr) ==
    IF rc # 0 /\ stdout = <<>>
    THEN <<500, <<>>, GitError(stderr)>>
    ELSE <<200, content_type, stdout>>

\* the service an endpoint runs
ServiceOf(req) == CASE req.kind = "info_refs" -> req.service
                    [] req.kind = "upload_pack" -> GitUploadPack
                    [] OTHER -> GitReceivePack

\* subprocess.Popen([cmd, '--stateless-rpc', ..., repo]): the plumbing program starts
Spawn(r) ==
    /\ reqs[r].pc = "spawn"
    /\ LET path == RepoPath(reqs[r].username) IN
       reqs' = [reqs EXCEPT ![r].pc = "wait", ![r].runs = @ + 1,
                            ![r].repo = path,
                            ![r].ranAbsent = ~IsDir(path),
                            ![r].ranPartial = IsDir(path) /\ ~Provisioned(path)]
    /\ UNCHANGED <<dbVars, cfgVars, repos>>

\* proc.communicate() returns: the program has exited with rc, stdout and stderr
Exit(r, rc, stdout, stderr) ==
    /\ reqs[r].pc = "wait"
    /\ LET req == reqs[r]
           resp == IF req.kind = "info_refs"
                   THEN InfoRefsResponse(req.service, rc, stdout, stderr)
                   ELSE RunGitServiceResponse(
                            <<"application/x-">> \o ServiceOf(req) \o <<"-result">>,
                            rc, stdout, stderr)
       IN reqs' = [reqs EXCEPT ![r].pc = "done", ![r].status = resp[1],
                               ![r].content_type = resp[2], ![r].body = resp[3],
                               ![r].rc = rc, ![r].stdout = stdout,
                               ![r].stderr = stderr]
    /\ UNCHANGED <<dbVars, cfgVars, repos>>

\* variant: a handler that waits for its subprocess gives up and answers 504
Retire_Timeout(r) ==
    /\ reqs[r].pc \in {"done", "wait"}
    /\ reqs' = IF reqs[r].pc = "wait"
               THEN [reqs EXCEPT ![r].pc = "done", ![r].status = 504]
               ELSE [reqs EXCEPT ![r] = Idle]
    /\ UNCHANGED <<dbVars, cfgVars, repos>>

\* the response has been sent; the slot is free again
Retire(r) ==
    /\ reqs[r].pc = "done"
    /\ reqs' = [reqs EXCEPT ![r] = Idle]
    /\ UNCHANGED <<dbVars, cfgVars, repos>>

----------------------------------------------------------------------------
(* The application around the gateway                                      *)

\* register(): the username the form value becomes
NormalizeUsername(raw) == Lower(Strip(raw))

\* variant: the username need not be alphanumeric
RegistrationAccepts_AnyChars(username, password) ==
    /\ username # <<>> /\ password # ""
    /\ Len(username) >= 2
    /\ PasswordLen(password) >= 8
    /\ get_by_username(username) = None

\* register(): the checks before the INSERT
RegistrationAccepts(username, password) ==
    /\ username # <<>> /\ password # ""
    /\ Len(username) >= 2 /\ IsAlnum(username)
    /\ PasswordLen(password) >= 8
    /\ get_by_username(username) = None

\* POST /register: validate, INSERT and commit, then call init_user_repo
Register(r, raw, password) ==
    /\ reqs[r].pc = "idle"
    /\ LET username == NormalizeUsername(raw) IN
       IF RegistrationAccepts(username, password)
       THEN /\ user' = user \cup {[id |-> username, username |-> username,
                                   password_hash |-> Bcrypt(password)]}
            /\ reqs' = [reqs EXCEPT ![r] = [Idle EXCEPT !.kind = "register",
                                                       !.pc = "init_isdir",
                                                       !.username = username]]
       ELSE /\ user' = user
            /\ reqs' = [reqs EXCEPT ![r] = [Idle EXCEPT !.kind = "register",
                                                       !.pc = "done",
                                                       !.username = username,
                                                       !.status = 200]]
    /\ UNCHANGED <<api_key, itemVars, cfgVars, repos>>

\* a direct call of init_user_repo(username)
CallInit(r, username) ==
    /\ reqs[r].pc = "idle"
    /\ reqs' = [reqs EXCEPT ![r] = [Idle EXCEPT !.kind = "init_user_repo",
                                               !.pc = "init_isdir",
                                               !.username = username]]
    /\ UNCHANGED <<dbVars, cfgVars, repos>>

\* the scopes column of a key that create_key stores when the request names none
DefaultScopes == {"read", "write"}

\* POST /api/v1/keys by the logged-in user: a fresh random key is stored hashed,
\* with the scopes the request names
CreateKey(username, raw_key, scopes) ==
    /\ get_by_username(username) # None
    /\ \A k \in api_key : k.key_hash # hash_api_key(raw_key)
    /\ api_key' = api_key \cup {[key_hash |-> hash_api_key(raw_key),
                                 user_id |-> get_by_username(username).id,
                                 scopes |-> scopes]}
    /\ UNCHANGED <<user, itemVars, cfgVars, repos, reqs>>

\* require_api_auth: (row['scopes'] or 'read').split(',') of the key's row
KeyScopes(key_hash) ==
    LET row == CHOOSE k \in api_key : k.key_hash = key_hash IN
    IF row.scopes = {} THEN {"read"} ELSE row.scopes

\* User.get_by_api_key: the user that owns a key with this hash
get_by_api_key(key_hash) ==
    IF \E k \in api_key : k.key_hash = key_hash /\ get_by_username(k.user_id) # None
    THEN get_by_username((CHOOSE k \in api_key : k.key_hash = key_hash).user_id)
    ELSE None

\* an Authorization header is its first seven characters and the rest
Bearer(raw_key) == <<"Bearer ", raw_key>>

NoAuthorization == <<"", "">>

\* what require_api_auth leaves behind: the status 401, or 0 when it calls the
\* endpoint, with request._api_user and request._api_scopes
Rejected == [status |-> 401, api_user |-> None, api_scopes |-> {}]

Calls(api_user, api_scopes) ==
    [status |-> 0, api_user |-> api_user, api_scopes |-> api_scopes]

\* variant: the API-key lookup comes before the admin token
RequireApiAuth_KeyFirst(session, authorization, target_user) ==
    IF session # <<>> THEN Calls(None, {})
    ELSE IF authorization[1] # "Bearer " THEN Rejected
    ELSE LET raw_key == authorization[2]
             key_user == get_by_api_key(hash_api_key(raw_key))
             admin_user == IF target_user # <<>>
                           THEN get_by_username(target_user) ELSE None
         IN IF key_user # None THEN Calls(key_user, KeyScopes(hash_api_key(raw_key)))
            ELSE IF ADMIN_TOKEN # "" /\ raw_key = ADMIN_TOKEN /\ admin_user # None
            THEN Calls(admin_user, {"read", "write", "sync"})
            ELSE Rejected

\* variant: the admin token is compared without testing that one is configured
RequireApiAuth_EmptyToken(session, authorization, target_user) ==
    IF session # <<>> THEN Calls(None, {})
    ELSE IF authorization[1] # "Bearer " THEN Rejected
    ELSE LET raw_key == authorization[2]
             key_user == get_by_api_key(hash_api_key(raw_key))
             admin_user == IF target_user # <<>>
                           THEN get_by_username(target_user) ELSE None
         IN IF raw_key = ADMIN_TOKEN /\ admin_user # None
            THEN Calls(admin_user, {"read", "write", "sync"})
            ELSE IF key_user # None THEN Calls(key_user, KeyScopes(hash_api_key(raw_key)))
            ELSE Rejected

\* require_api_auth: session, else Bearer admin token with X-ListHub-User, else
\* Bearer API key, else 401
RequireApiAuth(session, authorization, target_user) ==
    IF session # <<>> THEN Calls(None, {})
    ELSE IF authorization[1] # "Bearer " THEN Rejected
    ELSE LET raw_key == authorization[2]
             key_user == get_by_api_key(hash_api_key(raw_key))
             admin_user == IF target_user # <<>>
                           THEN get_by_username(target_user) ELSE None
         IN IF ADMIN_TOKEN # "" /\ raw_key = ADMIN_TOKEN /\ admin_user # None
            THEN Calls(admin_user, {"read", "write", "sync"})
            ELSE IF key_user # None THEN Calls(key_user, KeyScopes(hash_api_key(raw_key)))
            ELSE Rejected

\* get_current_api_user: the identity the endpoint acts as
get_current_api_user(req) ==
    IF req.session # <<>> THEN get_by_username(req.session) ELSE req.api_user

\* api_has_scope
api_has_scope(req, scope) ==
    IF req.session # <<>> THEN TRUE ELSE scope \in req.api_scopes

\* a request to an endpoint of the item API passes through require_api_auth;
\* session is the username flask-login has in the session cookie (a user who
\* logged in), status 0 stands for the response of the endpoint itself
ApiRequest(r, session, authorization, target_user) ==
    /\ reqs[r].pc = "idle"
    /\ session # <<>> => get_by_username(session) # None
    /\ LET res == RequireApiAuth(session, authorization, target_user) IN
       reqs' = [reqs EXCEPT ![r] = [Idle EXCEPT !.kind = "api", !.pc = "done",
                                               !.session = session,
                                               !.authorization = authorization,
                                               !.hdr = target_user,
                                               !.status = res.status,
                                               !.api_user = res.api_user,
                                               !.api_scopes = res.api_scopes]]
    /\ UNCHANGED <<dbVars, cfgVars, repos>>

----------------------------------------------------------------------------
(* The item API (api.py).  Each request has its own database connection;   *)
(* a SELECT is a step of its own, the statements from the first write to   *)
(* commit() are one transaction and one step.  The full-text index and the *)
(* size limits of validate_item_input are not modelled.                    *)

ItemOps == {"get_item", "update_item_metadata", "create_item", "edit_item_content",
            "delete_item", "append_to_list", "share_item", "revoke_share"}

\* the endpoints that test api_has_scope('write') first
WriteOps == ItemOps \ {"get_item"}

\* 'key' in data
Has(data, key) == key \in data.keys

\* tag.strip().lower() for the tags that are kept
NormalTags(tags) == {Lower(Strip(t)) : t \in tags} \ {<<>>}

\* append_to_list: the content with the entry added as a list line
AppendEntry(content, entry) ==
    LET c == IF content # <<>> /\ content[Len(content)] # "\n"
             THEN content \o <<"\n">> ELSE content
    IN c \o <<"-", " ">> \o entry \o <<"\n">>

\* jsonify({"error": ...}), status
ItemRespond(r, status) ==
    reqs' = [reqs EXCEPT ![r].pc = "done", ![r].status = status]

\* the request arrives, passes require_api_auth and, on an endpoint that
\* writes, the test of the write scope
ItemArrive(r, kind, session, authorization, target_user, item_id, data) ==
    /\ reqs[r].pc = "idle"
    /\ kind \in ItemOps
    /\ session # <<>> => get_by_username(session) # None
    /\ LET res == RequireApiAuth(session, authorization, target_user)
           req == [Idle EXCEPT !.kind = kind, !.session = session,
                               !.authorization = authorization,
                               !.hdr = target_user,
                               !.item_id = item_id, !.data = data,
                               !.api_user = res.api_user,
                               !.api_scopes = res.api_scopes]
       IN reqs' = [reqs EXCEPT ![r] =
                     IF res.status = 401
                     THEN [req EXCEPT !.pc = "done", !.status = 401]
                     ELSE IF kind \in WriteOps /\ ~api_has_scope(req, "write")
                     THEN [req EXCEPT !.pc = "done", !.status = 403]
                     ELSE IF kind = "create_item"
                     THEN [req EXCEPT !.pc = "write"]
                     ELSE [req EXCEPT !.pc = "select"]]
    /\ UNCHANGED <<dbVars, cfgVars, repos>>

\* variant: the item is looked up by its id alone
OwnedRow_AnyOwner(item_id, owner_id) ==
    IF item_id \in DOMAIN item THEN item[item_id] ELSE NoRow

\* SELECT * FROM item WHERE id = ? AND owner_id = ?
OwnedRow(item_id, owner_id) ==
    IF item_id \in DOMAIN item /\ item[item_id].owner_id = owner_id
    THEN item[item_id] ELSE NoRow

\* the lookup of the addressed item, "if not item: 404", and the checks of
\* the JSON body that follow it
ItemSelect(r) ==
    /\ reqs[r].pc = "select"
    /\ LET req == reqs[r]
           row == OwnedRow(req.item_id, get_current_api_user(req).id)
       IN IF row = NoRow THEN ItemRespond(r, 404)
          ELSE IF req.kind = "get_item"
          THEN reqs' = [reqs EXCEPT ![r].pc = "done", ![r].status = 200,
                                    ![r].row = row,
                                    ![r].tags = {t[2] : t \in {x \in item_tag :
                                                               x[1] = req.item_id}}]
          ELSE IF req.kind = "edit_item_content" /\ ~Has(req.data, "content")
          THEN ItemRespond(r, 400)
          ELSE IF req.kind = "append_to_list" /\ Strip(req.data.entry) = <<>>
          THEN ItemRespond(r, 400)
          ELSE IF req.kind = "share_item" /\ Strip(req.data.shared_with) = <<>>
          THEN ItemRespond(r, 400)
          ELSE reqs' = [reqs EXCEPT ![r].pc = "write", ![r].row = row]
    /\ UNCHANGED <<dbVars, cfgVars, repos>>

\* the rows of other items
OtherTags(item_id) == {t \in item_tag : t[1] # item_id}

OtherVersions(item_id) == SelectSeq(item_version, LAMBDA v : v.item_id # item_id)

OtherShares(item_id) == {s \in share : s.item_id # item_id}

\* the statement raises (a foreign key fails); nothing is committed and the
\* application answers 500
ItemRaise(r) ==
    /\ reqs' = [reqs EXCEPT ![r].pc = "done", ![r].status = 500, ![r].raised = TRUE]
    /\ UNCHANGED itemVars

\* the content edit_item_content and append_to_list write: from the request,
\* or from the row the handler has read
NewContent(req) ==
    IF req.kind = "edit_item_content" THEN req.data.content
    ELSE AppendEntry(req.row.content, Strip(req.data.entry))

\* new_revision = item['revision'] + 1, from the row the handler has read
NewRevision(req) == req.row.revision + 1

\* UPDATE item SET content, revision; INSERT INTO item_version; commit
WriteContent(r) ==
    LET req == reqs[r] IN
    IF req.item_id \notin DOMAIN item THEN ItemRaise(r)
    ELSE /\ item' = [item EXCEPT ![req.item_id].content = NewContent(req),
                                 ![req.item_id].revision = NewRevision(req)]
         /\ item_version' = Append(item_version,
                                   [content |-> NewContent(req),
                                    revision |-> NewRevision(req),
                                    item_id |-> req.item_id])
         /\ reqs' = [reqs EXCEPT ![r].pc = "reply"]
         /\ UNCHANGED <<item_tag, share>>

\* INSERT INTO item, item_tag, item_version (revision 1); commit; id is nanoid()
WriteCreate(r, id) ==
    LET req == reqs[r]
        data == req.data
    IN /\ id \notin DOMAIN item
       /\ item' = [i \in DOMAIN item \cup {id} |->
                     IF i = id
                     THEN [owner_id |-> get_current_api_user(req).id,
                           title |-> IF Has(data, "title") THEN data.title
                                     ELSE "Untitled",
                           content |-> IF Has(data, "content") THEN data.content
                                       ELSE <<>>,
                           visibility |-> IF /\ Has(data, "visibility")
                                             /\ data.visibility \in
                                                  {"private", "shared", "public"}
                                          THEN data.visibility ELSE "private",
                           revision |-> 1]
                     ELSE item[i]]
       /\ item_tag' = item_tag \cup
                        {<<id, t>> : t \in IF Has(data, "tags")
                                           THEN NormalTags(data.tags) ELSE {}}
       /\ item_version' = Append(item_version,
                                 [content |-> IF Has(data, "content")
                                              THEN data.content ELSE <<>>,
                                  revision |-> 1, item_id |-> id])
       /\ reqs' = [reqs EXCEPT ![r].pc = "reply", ![r].item_id = id]
       /\ UNCHANGED share

\* UPDATE item SET ... WHERE id = ? AND owner_id = ?; replace the tags; commit
WriteMetadata(r) ==
    LET req == reqs[r]
        data == req.data
        there == req.item_id \in DOMAIN item
        mine == there /\ item[req.item_id].owner_id = get_current_api_user(req).id
        tags == IF Has(data, "tags") THEN NormalTags(data.tags) ELSE {}
    IN IF ~there /\ tags # {} THEN ItemRaise(r)
       ELSE /\ item' = IF mine
                       THEN [item EXCEPT
                              ![req.item_id].title =
                                 IF Has(data, "title") THEN data.title ELSE @,
                              ![req.item_id].visibility =
                                 IF /\ Has(data, "visibility")
                                    /\ data.visibility \in
                                         {"private", "shared", "public"}
                                 THEN data.visibility ELSE @]
                       ELSE item
            /\ item_tag' = IF Has(data, "tags")
                           THEN OtherTags(req.item_id) \cup
                                  {<<req.item_id, t>> : t \in tags}
                           ELSE item_tag
            /\ reqs' = [reqs EXCEPT ![r].pc = "reply"]
            /\ UNCHANGED <<item_version, share>>

\* DELETE FROM item WHERE id = ?; the rows that reference it go with it
\* (ON DELETE CASCADE, foreign_keys=ON); commit
WriteDelete(r) ==
    LET id == reqs[r].item_id IN
    /\ item' = [i \in DOMAIN item \ {id} |-> item[i]]
    /\ item_tag' = OtherTags(id)
    /\ item_version' = OtherVersions(id)
    /\ share' = OtherShares(id)
    /\ ItemRespond(r, 200)

\* INSERT OR REPLACE INTO share; UPDATE item SET visibility = 'shared'; commit
WriteShare(r) ==
    LET req == reqs[r]
        who == Strip(req.data.shared_with)
        permission == IF /\ Has(req.data, "permission")
                         /\ req.data.permission \in {"read", "edit"}
                      THEN req.data.permission ELSE "read"
    IN IF req.item_id \notin DOMAIN item THEN ItemRaise(r)
       ELSE /\ share' = {s \in share : ~(s.item_id = req.item_id
                                         /\ s.shared_with = who)}
                          \cup {[shared_with |-> who,
                                 permission |-> permission,
                                 item_id |-> req.item_id]}
            /\ item' = IF req.row.visibility # "shared"
                       THEN [item EXCEPT ![req.item_id].visibility = "shared"]
                       ELSE item
            /\ ItemRespond(r, 200)
            /\ UNCHANGED <<item_tag, item_version>>

\* DELETE FROM share WHERE item_id = ? AND shared_with = ?; commit
WriteRevoke(r) ==
    /\ share' = {s \in share : ~(s.item_id = reqs[r].item_id
                                 /\ s.shared_with = reqs[r].data.shared_with)}
    /\ ItemRespond(r, 200)
    /\ UNCHANGED <<item, item_tag, item_version>>

\* the transaction of a writing endpoint
ItemWrite(r, id) ==
    /\ reqs[r].pc = "write"
    /\ CASE reqs[r].kind = "create_item" -> WriteCreate(r, id)
         [] reqs[r].kind \in {"edit_item_content", "append_to_list"} -> WriteContent(r)
         [] reqs[r].kind = "update_item_metadata" -> WriteMetadata(r)
         [] reqs[r].kind = "delete_item" -> WriteDelete(r)
         [] reqs[r].kind = "share_item" -> WriteShare(r)
         [] OTHER -> WriteRevoke(r)
    /\ UNCHANGED <<user, api_key, cfgVars, repos>>

\* updated = SELECT * FROM item WHERE id = ?; return jsonify(item_to_dict(updated));
\* item_to_dict(None) raises
ItemReply(r) ==
    /\ reqs[r].pc = "reply"
    /\ LET req == reqs[r] IN
       IF req.item_id \in DOMAIN item
       THEN reqs' = [reqs EXCEPT ![r].pc = "done",
                                 ![r].status = IF req.kind = "create_item"
                                               THEN 201 ELSE 200,
                                 ![r].row = item[req.item_id]]
       ELSE reqs' = [reqs EXCEPT ![r].pc = "done", ![r].status = 500,
                                 ![r].raised = TRUE]
    /\ UNCHANGED <<dbVars, cfgVars, repos>>

\* the server restarts with another environment; requests in flight are lost
Restart(url, token) ==
    /\ <<url, token>> # <<BASE_URL, ADMIN_TOKEN>>
    /\ BASE_URL' = url
    /\ ADMIN_TOKEN' = token
    /\ reqs' = [r \in Slots |-> Idle]
    /\ UNCHANGED <<dbVars, repos>>

----------------------------------------------------------------------------
(* Inputs                                                                  *)

DefaultBaseUrl == "http://localhost:3200"

\* the identities whose repositories requests name
UrlNames == {alice, carol}

\* what a visitor may type as username in the registration form: the two names,
\* one to be stripped and lower-cased, one that is not alphanumeric
RawUsernames == UrlNames \cup {<<" ", "A", "l", "i", "c", "e">>, <<"a", ".">>}

\* the query parameter "service": the two services, another value, none
ServiceInputs(kind) == IF kind = "info_refs"
                       THEN {GitUploadPack, GitReceivePack, GitFoo, <<>>}
                       ELSE {<<>>}

\* what the plumbing program can write to its standard output
Outputs == {<<>>, <<"r", "e", "f", "s">>}

ExitCodes == {0, 128}

\* what the plumbing program can write to its standard error
Diagnostics == {"fatal: bad object", "fatal: not a git repository"}

\* handlers run one at a time in this slot
Sequential == {1}

\* the empty table "item"
NoItems == [i \in {} |-> NoRow]

\* the empty filesystem
NoRepos == [q \in {} |-> EmptyDir]

InitDb ==
    /\ user = {}
    /\ api_key = {}
    /\ item = NoItems
    /\ item_tag = {}
    /\ item_version = <<>>
    /\ share = {}
    /\ repos = NoRepos
    /\ reqs = [r \in Slots |-> Idle]

\* the steps of the handler in slot r; Oks: whether toolchain steps may fail
HandlerStep(r, Oks, Rcs, Outs, Errs) ==
    \/ RequireAuth(r)
    \/ CheckService(r)
    \/ CheckRepo(r)
    \/ InitIsDir(r)
    \/ \E ok \in BOOLEAN : MakeDirs(r, ok)
    \/ \E ok \in Oks : GitInit(r, ok)
    \/ \E ok \in Oks : SetHead(r, ok)
    \/ \E ok \in Oks : SetFlag(r, ok)
    \/ InstallHook(r)
    \/ Spawn(r)
    \/ \E rc \in Rcs, out \in Outs, err \in Errs : Exit(r, rc, out, err)
    \/ Retire(r)

----------------------------------------------------------------------------
(* Spec: one request at a time, with valid or missing credentials; every   *)
(* provisioning step may fail, the plumbing program may fail, the server   *)
(* may be restarted with other settings.                                   *)

Settings == {<<DefaultBaseUrl, "">>, <<"https://listhub.example", "admintok">>}

Init ==
    /\ InitDb
    /\ BASE_URL = DefaultBaseUrl
    /\ ADMIN_TOKEN = ""

Next ==
    \/ \E r \in Sequential :
         \/ \E kind \in Gateway, username \in UrlNames :
              \E auth \in {NoAuth, BasicAuth(username, "S3cret!!")},
                 service \in ServiceInputs(kind) :
                 Arrive(r, kind, username, auth, <<>>, service)
         \/ HandlerStep(r, BOOLEAN, ExitCodes, Outputs, Diagnostics)
         \/ \E raw \in RawUsernames : Register(r, raw, "S3cret!!")
         \/ \E username \in UrlNames : CallInit(r, username)
    \/ \E s \in Settings : Restart(s[1], s[2])

Spec == Init /\ [][Next]_vars

----------------------------------------------------------------------------
(* SpecAuth: one request at a time, with every kind of credential; users   *)
(* register with equal or different passwords and create API keys.         *)

Passwords == {"S3cret!!", "admintok"}

RawKeys == {"mem_key1"}

\* the usernames and secrets a client may put in the Basic pair
AuthInputs ==
    {NoAuth} \cup
    {BasicAuth(u, p) : u \in {alice, carol, bob, <<>>},
                       p \in Passwords \cup RawKeys \cup {"wrong", ""}}

InitAuth ==
    /\ InitDb
    /\ BASE_URL = DefaultBaseUrl
    /\ ADMIN_TOKEN \in {"", "admintok"}

NextAuth ==
    \/ \E r \in Sequential :
         \/ \E kind \in Gateway, username \in UrlNames, auth \in AuthInputs :
              \E hdr \in {<<>>, carol}, service \in ServiceInputs(kind) :
                 Arrive(r, kind, username, auth, hdr, service)
         \/ HandlerStep(r, {TRUE}, {0}, {<<"r", "e", "f", "s">>}, {""})
         \/ \E raw \in UrlNames, password \in Passwords \cup {"short"} :
              Register(r, raw, password)
    \/ \E username \in UrlNames, raw_key \in RawKeys :
         CreateKey(username, raw_key, DefaultScopes)

SpecAuth == InitAuth /\ [][NextAuth]_vars

----------------------------------------------------------------------------
(* SpecConc: handlers for one identity run concurrently, their steps       *)
(* interleave; credentials are valid, no toolchain step fails.             *)

NextConc ==
    \E r \in Slots :
       \/ \E kind \in Gateway, service \in {GitUploadPack, GitFoo} :
            Arrive(r, kind, alice, BasicAuth(alice, "S3cret!!"), <<>>,
                   IF kind = "info_refs" THEN service ELSE <<>>)
       \/ HandlerStep(r, {TRUE}, ExitCodes, {<<"r", "e", "f", "s">>}, {"fatal: bad object"})
       \/ Register(r, alice, "S3cret!!")
       \/ CallInit(r, alice)

SpecConc == Init /\ [][NextConc]_vars

----------------------------------------------------------------------------
(* SpecPar: handlers for different identities run concurrently, one slot   *)
(* per identity, their steps interleave; toolchain steps may fail.         *)

\* the identity whose requests slot r handles
IdentityOf(r) == IF r = 1 THEN alice ELSE carol

NextPar ==
    \E r \in Slots :
       \/ \E kind \in Gateway :
            Arrive(r, kind, IdentityOf(r), BasicAuth(IdentityOf(r), "S3cret!!"),
                   <<>>, IF kind = "info_refs" THEN GitReceivePack ELSE <<>>)
       \/ HandlerStep(r, BOOLEAN, ExitCodes, {<<"r", "e", "f", "s">>}, {"fatal: bad object"})
       \/ Register(r, IdentityOf(r), "S3cret!!")

SpecPar == Init /\ [][NextPar]_vars

----------------------------------------------------------------------------
(* SpecApi: the item API's authentication next to the gateway; users       *)
(* register and create keys, the admin token may be unset, a secret of its *)
(* own, or equal to a user's password or API key.                          *)

Tokens == {"", "admintok", "mem_key1"}

\* the Authorization headers a client of the item API may send
Authorizations ==
    {NoAuthorization, <<"Basic ", "admintok">>, <<"bearer ", "admintok">>} \cup
    {Bearer(k) : k \in Passwords \cup RawKeys \cup {"wrong", ""}}

\* the values of X-ListHub-User: none, registered names, an unknown name
TargetUsers == {<<>>, alice, carol, bob}

InitApi ==
    /\ InitDb
    /\ BASE_URL = DefaultBaseUrl
    /\ ADMIN_TOKEN \in Tokens

NextApi ==
    \/ \E r \in Sequential :
         \/ \E kind \in Gateway :
              Arrive(r, kind, alice, BasicAuth(alice, "S3cret!!"), <<>>,
                     IF kind = "info_refs" THEN GitUploadPack ELSE <<>>)
         \/ HandlerStep(r, {TRUE}, {0}, {<<"r", "e", "f", "s">>}, {""})
         \/ \E raw \in UrlNames, password \in Passwords : Register(r, raw, password)
         \/ \E session \in {<<>>} \cup UrlNames, authorization \in Authorizations,
                target_user \in TargetUsers :
              ApiRequest(r, session, authorization, target_user)
    \/ \E username \in UrlNames, raw_key \in RawKeys :
         CreateKey(username, raw_key, DefaultScopes)

SpecApi == InitApi /\ [][NextApi]_vars

----------------------------------------------------------------------------
(* SpecPath: usernames of any shape reach the path computation: in the URL *)
(* of a request, in the registration form, in a direct call of             *)
(* init_user_repo.                                                         *)

\* usernames with dots and slashes, without any alphanumeric character, empty
CraftedNames ==
    {<<".", ".", "/", "a">>, <<"/", "e", "t", "c">>, <<".", ".">>,
     <<"a", ".", "b">>, <<"a", "b">>, <<>>}

NextPath ==
    \E r \in Sequential :
       \/ \E kind \in Gateway, username \in CraftedNames \cup {alice} :
            Arrive(r, kind, username, BasicAuth(alice, "S3cret!!"), <<>>,
                   IF kind = "info_refs" THEN GitUploadPack ELSE <<>>)
       \/ HandlerStep(r, {TRUE}, {0}, {<<"r", "e", "f", "s">>}, {""})
       \/ \E raw \in CraftedNames \cup {alice} : Register(r, raw, "S3cret!!")
       \/ \E username \in CraftedNames : CallInit(r, username)

SpecPath == Init /\ [][NextPath]_vars

----------------------------------------------------------------------------
(* SpecLive: one request at a time for one identity, with fairness: a      *)
(* handler that can execute its next statement does so (a worker runs its  *)
(* request to the end), and a subprocess that has been started exits.      *)

\* the statements of the handler in slot r that do not wait for a subprocess
Proceeds(r) ==
    \/ RequireAuth(r)
    \/ CheckService(r)
    \/ CheckRepo(r)
    \/ InitIsDir(r)
    \/ \E ok \in BOOLEAN : MakeDirs(r, ok)
    \/ \E ok \in BOOLEAN : GitInit(r, ok)
    \/ \E ok \in BOOLEAN : SetHead(r, ok)
    \/ \E ok \in BOOLEAN : SetFlag(r, ok)
    \/ InstallHook(r)
    \/ Spawn(r)

\* proc.communicate() returns in the handler in slot r
Exits(r) ==
    \E rc \in ExitCodes, out \in Outputs, err \in Diagnostics : Exit(r, rc, out, err)

NextLive ==
    \E r \in Sequential :
       \/ \E kind \in Gateway, auth \in {NoAuth, BasicAuth(alice, "S3cret!!")} :
            \E service \in ServiceInputs(kind) :
               Arrive(r, kind, alice, auth, <<>>, service)
       \/ HandlerStep(r, BOOLEAN, ExitCodes, Outputs, Diagnostics)
       \/ Register(r, alice, "S3cret!!")

SpecLive ==
    /\ Init /\ [][NextLive]_vars
    /\ \A r \in Sequential : WF_vars(Proceeds(r)) /\ WF_vars(Exits(r))

----------------------------------------------------------------------------
(* SpecSecret: the admin token is set to any value at start and changed by *)
(* restarts that change nothing else; one request at a time.               *)

SecretValues == {"", "admintok", "othertok"}

InitSecret ==
    /\ InitDb
    /\ BASE_URL = DefaultBaseUrl
    /\ ADMIN_TOKEN \in SecretValues

NextSecret ==
    \/ \E r \in Sequential :
         \/ \E kind \in Gateway,
               auth \in {NoAuth} \cup {BasicAuth(alice, p) : p \in Passwords} :
              \E service \in ServiceInputs(kind) :
                 Arrive(r, kind, alice, auth, <<>>, service)
         \/ HandlerStep(r, {TRUE}, ExitCodes, {<<"r", "e", "f", "s">>},
                        {"fatal: bad object"})
         \/ Register(r, alice, "S3cret!!")
    \/ \E token \in SecretValues : Restart(BASE_URL, token)

SpecSecret == InitSecret /\ [][NextSecret]_vars

----------------------------------------------------------------------------
(* SpecReg: visitors register under names of several shapes, alike up to   *)
(* punctuation, case and blanks; registered users then send gateway        *)
(* requests for their own and for each other's repositories.               *)

ab == <<"a", "b">>

\* what visitors type as username: two names that differ by a dot only, one to
\* be stripped and lower-cased, one that is too short
FormNames == {ab, <<"a", ".", "b">>, <<" ", "A", "b", " ">>, <<"a">>, alice}

\* the usernames in URLs and in Basic pairs
RegNames == {ab, <<"a", ".", "b">>, alice}

NextReg ==
    \E r \in Sequential :
       \/ \E kind \in Gateway, username \in RegNames, u \in RegNames :
            Arrive(r, kind, username, BasicAuth(u, "S3cret!!"), <<>>,
                   IF kind = "info_refs" THEN GitReceivePack ELSE <<>>)
       \/ HandlerStep(r, {TRUE}, {0}, {<<"r", "e", "f", "s">>}, {""})
       \/ \E raw \in FormNames : Register(r, raw, "S3cret!!")

SpecReg == Init /\ [][NextReg]_vars

----------------------------------------------------------------------------
(* SpecRev: alice, logged in, creates an item and sends content edits and  *)
(* appends for it; the requests are handled concurrently, each on its own  *)
(* database connection.                                                    *)

\* number of rows of item_version up to which requests that add one arrive
MaxVersions == 3

\* the steps of register()'s call of init_user_repo, and the end of a request
ProvisionStep(r) ==
    \/ InitIsDir(r)
    \/ MakeDirs(r, TRUE)
    \/ GitInit(r, TRUE)
    \/ SetHead(r, TRUE)
    \/ SetFlag(r, TRUE)
    \/ InstallHook(r)
    \/ Retire(r)

\* the steps of an item API handler after its arrival
ItemStep(r, Ids) ==
    \/ ItemSelect(r)
    \/ \E id \in Ids : ItemWrite(r, id)
    \/ ItemReply(r)

\* JSON bodies
ContentData(content) == [NoData EXCEPT !.keys = {"content"}, !.content = content]

EntryData(entry) == [NoData EXCEPT !.keys = {"entry"}, !.entry = entry]

\* the bodies of the requests that write content
RevData(kind) ==
    CASE kind = "create_item" -> {ContentData(<<"x">>)}
      [] kind = "edit_item_content" -> {ContentData(<<"y">>), ContentData(<<"z">>)}
      [] OTHER -> {EntryData(<<"e">>)}

NextRev ==
    \E r \in Slots :
       \/ Register(r, alice, "S3cret!!")
       \/ ProvisionStep(r)
       \/ \E kind \in {"create_item", "edit_item_content", "append_to_list"} :
            \E data \in RevData(kind) :
               /\ Len(item_version) < MaxVersions
               /\ ItemArrive(r, kind, alice, NoAuthorization, <<>>, "i1", data)
       \/ ItemStep(r, {"i1"})

SpecRev == Init /\ [][NextRev]_vars

----------------------------------------------------------------------------
(* SpecOwn: alice and carol register, create API keys (carol's is          *)
(* read-only) and send every item operation, one request at a time, for    *)
(* an item that is their own, the other's, or absent; the hook's admin     *)
(* token is configured and is presented with either name.                  *)

\* how a client identifies itself: <<session, Authorization, X-ListHub-User>>
OwnCredentials ==
    {<<alice, NoAuthorization, <<>>>>, <<carol, NoAuthorization, <<>>>>,
     <<<<>>, Bearer("mem_key1"), <<>>>>, <<<<>>, Bearer("mem_key2"), <<>>>>,
     <<<<>>, Bearer("admintok"), alice>>, <<<<>>, Bearer("admintok"), carol>>}

\* the JSON body sent to each endpoint; revoke_share takes the name from the URL
OwnData(kind) ==
    CASE kind = "create_item" ->
           [NoData EXCEPT !.keys = {"content", "tags"}, !.content = <<"x">>,
                          !.tags = {<<"t">>}]
      [] kind = "update_item_metadata" ->
           [NoData EXCEPT !.keys = {"title", "visibility", "tags"}, !.title = "T2",
                          !.visibility = "public", !.tags = {<<" ", "B">>}]
      [] kind = "edit_item_content" -> ContentData(<<"y">>)
      [] kind = "append_to_list" -> EntryData(<<"e">>)
      [] kind \in {"share_item", "revoke_share"} ->
           [NoData EXCEPT !.keys = {"shared_with", "permission"},
                          !.shared_with = bob, !.permission = "edit"]
      [] OTHER -> NoData

InitOwn ==
    /\ InitDb
    /\ BASE_URL = DefaultBaseUrl
    /\ ADMIN_TOKEN = "admintok"

NextOwn ==
    \/ \E r \in Sequential :
         \/ \E raw \in UrlNames : Register(r, raw, "S3cret!!")
         \/ ProvisionStep(r)
         \/ \E kind \in ItemOps, cred \in OwnCredentials :
              /\ Len(item_version) < MaxVersions
              /\ ItemArrive(r, kind, cred[1], cred[2], cred[3], "i1", OwnData(kind))
         \/ ItemStep(r, {"i1"})
    \/ CreateKey(alice, "mem_key1", DefaultScopes)
    \/ CreateKey(carol, "mem_key2", {"read"})

SpecOwn == InitOwn /\ [][NextOwn]_vars

----------------------------------------------------------------------------
(* Properties                                                              *)

Done(r) == reqs[r].pc = "done"

\* the handler in slot r executes _require_auth in this step
AuthStep(r) == reqs[r].pc = "auth" /\ reqs'[r].pc \notin {"auth", "idle"}

\* the Basic pair auth proves identity u: u is the row the username names and the
\* secret is u's password or the raw form of an API key that u owns
ValidCredential(auth, u) ==
    /\ auth.present /\ auth.username # <<>> /\ auth.password # ""
    /\ u \in user /\ u.username = auth.username
    /\ \/ u.password_hash = Bcrypt(auth.password)
       \/ \E k \in api_key : /\ k.user_id = u.id
                             /\ k.key_hash = hash_api_key(auth.password)

\* the secret is u's password or the raw form of an API key that u owns
SecretOf(secret, u) ==
    \/ u.password_hash = Bcrypt(secret)
    \/ \E k \in api_key : k.user_id = u.id /\ k.key_hash = hash_api_key(secret)

\* C1: on all three endpoints, Basic credentials that are valid for identity A
\* with a URL path that names another identity B are answered 403, whether A's
\* credential is the password or an API key and whether or not B is registered
\* or has a repository.
C1_CrossTenantForbidden ==
    [][\A r \in Slots :
         AuthStep(r) =>
           \A u \in user :
              (ValidCredential(reqs[r].auth, u) /\ u.username # reqs[r].username)
              => (reqs'[r].pc = "done" /\ reqs'[r].status = 403)]_vars

\* a push POST with alice's API key on the path of carol, who is not registered
\* and has no repository, was answered 403
C1_Witness ==
    \E r \in Slots :
       /\ Done(r) /\ reqs[r].kind = "receive_pack" /\ reqs[r].status = 403
       /\ reqs[r].username = carol /\ reqs[r].auth.username = alice
       /\ reqs[r].auth.password \in RawKeys
       /\ get_by_username(carol) = None
       /\ ~IsDir(RepoPath(carol))

\* C2: credential resolution and the identity match come before anything else:
\* a request answered 401 or 403 has created nothing, installed no hook and run
\* no plumbing program, and a request without a valid credential for the
\* identity of its path is answered 401 or 403 whatever its service parameter.
C2_AuthBeforeAnything ==
    /\ [](\A r \in Slots :
            (reqs[r].kind \in Gateway /\ reqs[r].pc \in {"auth", "service"})
            \/ (Done(r) /\ reqs[r].kind \in Gateway /\ reqs[r].status \in {401, 403})
            => (reqs[r].made = {} /\ reqs[r].hooks = 0 /\ reqs[r].runs = 0))
    /\ [][\A r \in Slots :
            (/\ reqs[r].kind \in Gateway
             /\ reqs[r].pc \in {"auth", "service"}
             /\ reqs'[r].pc \notin {"auth", "service", "idle"}
             /\ ~\E u \in user : /\ ValidCredential(reqs[r].auth, u)
                                 /\ u.username = reqs[r].username)
            => (reqs'[r].pc = "done" /\ reqs'[r].status \in {401, 403}
                /\ repos' = repos)]_vars

\* a discovery request with an invalid service parameter and a wrong secret was
\* answered 401
C2_Witness ==
    \E r \in Slots :
       /\ Done(r) /\ reqs[r].kind = "info_refs" /\ reqs[r].status = 401
       /\ reqs[r].service = GitFoo
       /\ reqs[r].auth.username = alice /\ reqs[r].auth.password = "wrong"
       /\ get_by_username(alice) # None
       /\ reqs[r].username = alice

\* C3: a request whose Basic pair proves no identity (no header, empty username
\* or secret, unknown username, a secret that is neither the password nor a key
\* of the named identity) is answered 401 with the Basic challenge naming the
\* gateway, also when its username differs from the path; a valid credential is
\* never answered 401, and a 403 carries no challenge.
C3_Unauthenticated401 ==
    [][\A r \in Slots :
         AuthStep(r) =>
           /\ (~\E u \in user : ValidCredential(reqs[r].auth, u))
              => /\ reqs'[r].pc = "done" /\ reqs'[r].status = 401
                 /\ reqs'[r].www_authenticate = "Basic realm=\"ListHub Git\""
           /\ (\E u \in user : ValidCredential(reqs[r].auth, u))
              => reqs'[r].status # 401
           /\ reqs'[r].status = 403 => reqs'[r].www_authenticate = ""]_vars

\* an invalid secret under a registered username that is not the one of the
\* path was answered 401, not 403
C3_Witness ==
    \E r \in Slots :
       /\ Done(r) /\ reqs[r].kind \in Gateway /\ reqs[r].status = 401
       /\ reqs[r].www_authenticate # ""
       /\ reqs[r].auth.username = alice /\ reqs[r].username = carol
       /\ get_by_username(alice) # None
       /\ reqs[r].auth.password = "wrong"

\* C4: the Credential Resolver returns identity U only for the username of U
\* with U's own password or an API key owned by U; a secret that belongs to
\* another identity B and not to A, presented under A's username, proves nothing.
C4_OwnSecretOnly ==
    \A auth \in AuthInputs :
       /\ CheckBasicAuth(auth) # None => ValidCredential(auth, CheckBasicAuth(auth))
       /\ \A a \in user, b \in user :
            (/\ a # b /\ auth.present /\ auth.username = a.username
             /\ SecretOf(auth.password, b) /\ ~SecretOf(auth.password, a))
            => CheckBasicAuth(auth) = None

\* carol's API key under alice's username was answered 401
C4_Witness ==
    \E r \in Slots :
       /\ Done(r) /\ reqs[r].kind \in Gateway /\ reqs[r].status = 401
       /\ reqs[r].auth.username = alice
       /\ get_by_username(alice) # None /\ get_by_username(carol) # None
       /\ \E k \in api_key : /\ k.user_id = carol
                             /\ k.key_hash = hash_api_key(reqs[r].auth.password)
       /\ ~SecretOf(reqs[r].auth.password, get_by_username(alice))

\* the request of the scenario: discovery for the push service on carol's path,
\* the configured admin token as Basic secret, the header X-ListHub-User: carol
AdminTokenDiscovery(req) ==
    /\ req.kind = "info_refs" /\ req.service = GitReceivePack
    /\ req.username = carol /\ req.hdr = carol
    /\ req.auth.present /\ req.auth.username = carol
    /\ ADMIN_TOKEN # "" /\ req.auth.password = ADMIN_TOKEN
    /\ get_by_username(carol) # None

C6_FetchAbsent404 ==
    [][\A r \in Slots :
         (/\ reqs[r].kind = "upload_pack" /\ reqs[r].pc = "isdir"
          /\ reqs'[r].pc \notin {"isdir", "idle"}
          /\ ~IsDir(RepoPath(reqs[r].username)))
         => /\ reqs'[r].pc = "done" /\ reqs'[r].status = 404
            /\ reqs'[r].made = {} /\ reqs'[r].hooks = 0 /\ reqs'[r].runs = 0
            /\ repos' = repos]_vars

C6_Witness ==
    \E r \in Slots :
       /\ Done(r) /\ reqs[r].kind = "upload_pack" /\ reqs[r].status = 404
       /\ reqs[r].absent
       /\ get_by_username(reqs[r].username) # None
       /\ ~IsDir(RepoPath(reqs[r].username))
       /\ reqs[r].made = {} /\ reqs[r].hooks = 0 /\ reqs[r].runs = 0

\* C7: a discovery request or push POST that finds the repository absent runs
\* every creation step and the hook installer before it starts the plumbing
\* program; no plumbing program starts on an absent repository, and when the
\* request has been answered by the plumbing program the repository exists,
\* fully provisioned.  (A failing creation step ends the request before that.)
C7_ProvisionBeforePlumbing ==
    \A r \in Slots :
       reqs[r].kind \in Gateway =>
          /\ ~reqs[r].ranAbsent
          /\ (reqs[r].kind \in {"info_refs", "receive_pack"} /\ reqs[r].absent)
             => /\ reqs[r].runs > 0
                   => /\ reqs[r].made = CreationSteps /\ reqs[r].hooks = 1
                      /\ ~reqs[r].ranPartial
                /\ (reqs[r].pc \in {"spawn", "wait"} \/ (Done(r) /\ ~reqs[r].raised))
                   => Provisioned(RepoPath(reqs[r].username))
                /\ Done(r) => IF reqs[r].raised
                              THEN reqs[r].runs = 0 /\ reqs[r].status = 500
                              ELSE reqs[r].runs = 1

\* a push POST found no repository and was answered 200 by the plumbing program
C7_Witness ==
    \E r \in Slots :
       /\ Done(r) /\ reqs[r].kind = "receive_pack" /\ reqs[r].absent
       /\ reqs[r].status = 200 /\ reqs[r].runs = 1
       /\ reqs[r].made = CreationSteps
       /\ Provisioned(RepoPath(reqs[r].username))

\* C8: a call of init_user_repo for a repository directory that already exists
\* creates no other directory and leaves that repository's HEAD target and
\* push-enable flag as it found them; it returns the repository's path after
\* running the hook installer once.
C8_ProvisionIdempotent ==
    /\ [][\A r \in Slots :
            (reqs[r].existed /\ reqs[r].pc \notin {"idle", "done"})
            => LET path == RepoPath(reqs[r].username) IN
               /\ DOMAIN repos' = DOMAIN repos
               /\ repos'[path].bare = repos[path].bare
               /\ repos'[path].HEAD = repos[path].HEAD
               /\ repos'[path].receivepack = repos[path].receivepack]_vars
    /\ [](\A r \in Slots :
            (Done(r) /\ reqs[r].existed)
            => /\ ~reqs[r].raised /\ reqs[r].made = {} /\ reqs[r].hooks = 1
               /\ reqs[r].ret = RepoPath(reqs[r].username)
               /\ IsDir(reqs[r].ret))

\* init_user_repo was called again after a restart with other settings: the
\* repository is as the first call left it, its hook configuration is rewritten
C8_Witness ==
    \E r \in Slots :
       /\ Done(r) /\ reqs[r].kind = "init_user_repo" /\ reqs[r].existed
       /\ Provisioned(reqs[r].ret)
       /\ repos[reqs[r].ret].conf.LISTHUB_BASE_URL # DefaultBaseUrl

HexDigitValue(c) ==
    CASE c = "0" -> 0 [] c = "1" -> 1 [] c = "2" -> 2 [] c = "3" -> 3
      [] c = "4" -> 4 [] c = "5" -> 5 [] c = "6" -> 6 [] c = "7" -> 7
      [] c = "8" -> 8 [] c = "9" -> 9 [] c = "a" -> 10 [] c = "b" -> 11
      [] c = "c" -> 12 [] c = "d" -> 13 [] c = "e" -> 14 [] c = "f" -> 15
      [] OTHER -> 16

\* the number a 4-character lowercase hexadecimal prefix denotes, -1 if it is none
PrefixValue(p) ==
    IF Len(p) = 4 /\ \A i \in 1..4 : HexDigitValue(p[i]) < 16
    THEN 4096 * HexDigitValue(p[1]) + 256 * HexDigitValue(p[2])
         + 16 * HexDigitValue(p[3]) + HexDigitValue(p[4])
    ELSE -1

\* '# service=<svc>' and a newline
Banner(svc) == <<"#", " ", "s", "e", "r", "v", "i", "c", "e", "=">> \o svc \o <<"\n">>

\* C10: the body of a successful discovery response is the 4-character
\* lowercase hexadecimal rendering of len(banner) + 4, the banner
\* '# service=<svc>\n', the 4 bytes 0000, and the captured standard output of
\* the plumbing program, unchanged.
C10_DiscoveryBody ==
    \A r \in Slots :
       (Done(r) /\ reqs[r].kind = "info_refs" /\ reqs[r].status = 200)
       => LET body == reqs[r].body
              banner == Banner(reqs[r].service)
              n == Len(banner)
          IN /\ reqs[r].service \in Services
             /\ Len(body) = 4 + n + 4 + Len(reqs[r].stdout)
             /\ PrefixValue(SubSeq(body, 1, 4)) = n + 4
             /\ SubSeq(body, 5, 4 + n) = banner
             /\ SubSeq(body, 4 + n + 1, 4 + n + 4) = <<"0", "0", "0", "0">>
             /\ SubSeq(body, 4 + n + 5, Len(body)) = reqs[r].stdout

\* a discovery response for the push service: prefix 001f, then the banner,
\* 0000 and a non-empty advertisement
C10_Witness ==
    \E r \in Slots :
       /\ Done(r) /\ reqs[r].kind = "info_refs" /\ reqs[r].status = 200
       /\ reqs[r].service = GitReceivePack
       /\ reqs[r].stdout # <<>>
       /\ SubSeq(reqs[r].body, 1, 4) = <<"0", "0", "1", "f">>

\* the request of the end-to-end scenario: alice, authenticated with her account
\* password, asks for the advertisement of the fetch service on her own path
FetchDiscovery(req) ==
    /\ req.kind = "info_refs" /\ req.service = GitUploadPack
    /\ req.username = alice
    /\ req.auth = BasicAuth(alice, "S3cret!!")
    /\ get_by_username(alice) # None
    /\ get_by_username(alice).password_hash = Bcrypt("S3cret!!")

\* C11 as stated: that request, the toolchain succeeding, is answered 200 with
\* a body that starts with the length prefix 0031, the banner of the fetch
\* service and a newline, and 0000.
C11_FetchDiscovery0031 ==
    \A r \in Slots :
       (Done(r) /\ FetchDiscovery(reqs[r]) /\ ~reqs[r].raised /\ reqs[r].rc = 0)
       => /\ reqs[r].status = 200
          /\ SubSeq(reqs[r].body, 1, 4) = <<"0", "0", "3", "1">>
          /\ SubSeq(reqs[r].body, 5, 30) = Banner(GitUploadPack)
          /\ SubSeq(reqs[r].body, 31, 34) = <<"0", "0", "0", "0">>

\* C11 amended: that request is answered 200 unless a toolchain step fails
\* (then 500), and the body of the 200 starts with the length prefix 001e (the
\* banner '# service=git-upload-pack' and its newline are 26 bytes, plus the 4
\* of the prefix: 30 = 0x1e), then that banner, then 0000.
C11_FetchDiscovery001e ==
    \A r \in Slots :
       (Done(r) /\ FetchDiscovery(reqs[r]))
       => /\ reqs[r].status = IF reqs[r].raised \/ reqs[r].rc # 0 THEN 500 ELSE 200
          /\ reqs[r].status = 200
             => /\ Len(Banner(GitUploadPack)) = 26
                /\ SubSeq(reqs[r].body, 1, 4) = <<"0", "0", "1", "e">>
                /\ SubSeq(reqs[r].body, 5, 30) = Banner(GitUploadPack)
                /\ SubSeq(reqs[r].body, 31, 34) = <<"0", "0", "0", "0">>

\* the scenario's request was answered 200 with a body of prefix 001e
C11_Witness ==
    \E r \in Slots :
       /\ Done(r) /\ FetchDiscovery(reqs[r]) /\ reqs[r].status = 200
       /\ SubSeq(reqs[r].body, 1, 2) = <<"0", "0">>
       /\ reqs[r].body[3] = "1" /\ reqs[r].body[4] = "e"
       /\ Len(reqs[r].body) >= 34

\* C12: an authenticated, identity-matched discovery request whose service
\* parameter is missing or is neither of the two services is answered 400; it
\* provisions nothing, installs no hook and starts no plumbing program, also
\* when the identity has no repository yet.
C12_BadService400 ==
    /\ [][\A r \in Slots :
            (/\ reqs[r].kind = "info_refs" /\ reqs[r].pc = "service"
             /\ reqs'[r].pc \notin {"service", "idle"}
             /\ reqs[r].service \notin {GitUploadPack, GitReceivePack})
            => /\ RequireAuthStatus(reqs[r].username, reqs[r].auth) = 0
               /\ reqs'[r].pc = "done" /\ reqs'[r].status = 400
               /\ reqs'[r].made = {} /\ reqs'[r].hooks = 0 /\ reqs'[r].runs = 0
               /\ repos' = repos]_vars
    /\ [](\A r \in Slots :
            (/\ Done(r) /\ reqs[r].kind = "info_refs"
             /\ reqs[r].status \notin {401, 403}
             /\ reqs[r].service \notin {GitUploadPack, GitReceivePack})
            => /\ reqs[r].status = 400
               /\ reqs[r].made = {} /\ reqs[r].hooks = 0 /\ reqs[r].runs = 0)

\* a discovery request without service parameter, from a registered identity
\* that has no repository, was answered 400 and the identity still has none
C12_Witness ==
    \E r \in Slots :
       /\ Done(r) /\ reqs[r].kind = "info_refs" /\ reqs[r].status = 400
       /\ reqs[r].service = <<>>
       /\ reqs[r].auth.present
       /\ get_by_username(reqs[r].username) # None
       /\ ~IsDir(RepoPath(reqs[r].username))
       /\ reqs[r].runs = 0

\* the handler in slot r has been answered from the result of its plumbing program
Plumbed(r) == Done(r) /\ reqs[r].runs = 1 /\ ~reqs[r].raised

\* C13: a fetch or push POST is answered 500, carrying the captured standard
\* error, exactly when the plumbing program exits non-zero and wrote nothing to
\* standard output; in every other case (exit zero with any output, non-zero
\* exit with output) it is answered 200 with the captured standard output as
\* body, unchanged.
C13_PostStatus ==
    \A r \in Slots :
       (Plumbed(r) /\ reqs[r].kind \in {"upload_pack", "receive_pack"})
       => IF reqs[r].rc # 0 /\ reqs[r].stdout = <<>>
          THEN /\ reqs[r].status = 500
               /\ Len(reqs[r].body) = 3 /\ reqs[r].body[2] = reqs[r].stderr
          ELSE /\ reqs[r].status = 200
               /\ reqs[r].body = reqs[r].stdout

\* a push POST whose plumbing program exited non-zero after writing output was
\* answered 200 with that output
C13_Witness ==
    \E r \in Slots :
       /\ Plumbed(r) /\ reqs[r].kind = "receive_pack"
       /\ reqs[r].rc # 0 /\ reqs[r].stdout # <<>>
       /\ reqs[r].status = 200 /\ reqs[r].body = reqs[r].stdout

\* C14: a discovery request whose advertise-only plumbing program exits
\* non-zero is answered 500 carrying the captured standard error, whether or
\* not the program wrote to standard output; a framed advertisement is
\* returned only when the exit status is zero.
C14_DiscoveryStatus ==
    \A r \in Slots :
       (Plumbed(r) /\ reqs[r].kind = "info_refs")
       => IF reqs[r].rc # 0
          THEN /\ reqs[r].status = 500
               /\ Len(reqs[r].body) = 3 /\ reqs[r].body[2] = reqs[r].stderr
          ELSE /\ reqs[r].status = 200
               /\ reqs[r].body =
                    AdvertisementBody(reqs[r].service, reqs[r].stdout)

\* a discovery request whose plumbing program exited non-zero after writing
\* output was answered 500 with the diagnostic
C14_Witness ==
    \E r \in Slots :
       /\ Plumbed(r) /\ reqs[r].kind = "info_refs"
       /\ reqs[r].rc # 0 /\ reqs[r].stdout # <<>>
       /\ reqs[r].status = 500
       /\ reqs[r].body[2] = "fatal: not a git repository"

\* the handler in slot r passes through require_api_auth in this step
ApiAuthStep(r) == reqs[r].pc = "idle" /\ reqs'[r].kind = "api"

\* the request presents the configured, non-empty admin token as Bearer secret
PresentsAdminToken(req) ==
    /\ ADMIN_TOKEN # ""
    /\ req.authorization = <<"Bearer ", ADMIN_TOKEN>>

\* C15: an item API request without session whose Bearer secret is the
\* configured, non-empty admin token and whose X-ListHub-User header names an
\* existing identity U is executed as U with exactly the scopes read, write
\* and sync, whatever U's password and API keys are.
C15_PrivilegedPath ==
    [][\A r \in Slots :
         (/\ ApiAuthStep(r) /\ reqs'[r].session = <<>>
          /\ PresentsAdminToken(reqs'[r])
          /\ \E u \in user : u.username = reqs'[r].hdr)
         => /\ reqs'[r].status # 401
            /\ get_current_api_user(reqs'[r]) \in user
            /\ get_current_api_user(reqs'[r]).username = reqs'[r].hdr
            /\ reqs'[r].api_scopes = {"read", "write", "sync"}
            /\ \A scope \in {"read", "write", "sync"} :
                  api_has_scope(reqs'[r], scope)]_vars

\* a request with the admin token, which is also the raw form of alice's API
\* key, and the header carol was executed as carol, who owns no key and has
\* another password
C15_Witness ==
    \E r \in Slots :
       /\ Done(r) /\ reqs[r].kind = "api" /\ reqs[r].session = <<>>
       /\ PresentsAdminToken(reqs[r]) /\ reqs[r].hdr = carol
       /\ reqs[r].status = 0
       /\ reqs[r].api_user = get_by_username(carol)
       /\ reqs[r].api_scopes = {"read", "write", "sync"}
       /\ get_by_api_key(hash_api_key(ADMIN_TOKEN)) = get_by_username(alice)
       /\ get_by_username(alice) # None
       /\ ~SecretOf(ADMIN_TOKEN, get_by_username(carol))

\* the three conditions of the privileged path
PrivilegedPath(authorization, target_user) ==
    /\ ADMIN_TOKEN # ""
    /\ authorization = <<"Bearer ", ADMIN_TOKEN>>
    /\ \E u \in user : u.username = target_user

\* what the ordinary API-key lookup answers to an Authorization header
KeyLookup(authorization) ==
    IF /\ authorization[1] = "Bearer "
       /\ \E k \in api_key : k.key_hash = hash_api_key(authorization[2])
    THEN Calls(get_by_api_key(hash_api_key(authorization[2])),
               KeyScopes(hash_api_key(authorization[2])))
    ELSE Rejected

\* C16: the privileged path is taken only if an admin token is configured, the
\* Bearer secret equals it and X-ListHub-User names an existing identity; in
\* every other case the header has no influence: the request without session
\* is resolved by the API-key lookup alone or rejected with 401.
C16_PrivilegedOnly ==
    /\ [][\A r \in Slots :
            (/\ ApiAuthStep(r) /\ reqs'[r].session = <<>>
             /\ ~PrivilegedPath(reqs'[r].authorization, reqs'[r].hdr))
            => LET res == KeyLookup(reqs'[r].authorization) IN
               /\ reqs'[r].status = res.status
               /\ reqs'[r].api_user = res.api_user
               /\ reqs'[r].api_scopes = res.api_scopes
               /\ reqs'[r].status = 401 \/ "sync" \notin reqs'[r].api_scopes]_vars
    /\ [](\A r \in Slots :
            (/\ Done(r) /\ reqs[r].kind = "api" /\ reqs[r].session = <<>>
             /\ "sync" \in reqs[r].api_scopes)
            => /\ ADMIN_TOKEN # "" /\ reqs[r].authorization[2] = ADMIN_TOKEN
               /\ reqs[r].api_user # None
               /\ reqs[r].api_user.username = reqs[r].hdr)

\* with no admin token configured, a request with an empty Bearer secret and
\* the header carol, carol being registered, was rejected with 401
C16_Witness ==
    \E r \in Slots :
       /\ Done(r) /\ reqs[r].kind = "api" /\ reqs[r].session = <<>>
       /\ ADMIN_TOKEN = "" /\ reqs[r].authorization = <<"Bearer ", "">>
       /\ reqs[r].hdr = carol /\ get_by_username(carol) # None
       /\ reqs[r].status = 401 /\ reqs[r].api_user = None

\* the one place where the repository of identity u lives: <root>/<u>.git
Location(u) == <<"/", "r", "/">> \o u \o <<".", "g", "i", "t">>

\* C17: repository existence is monotonic and unique per identity: a
\* repository directory that exists still exists after every step of
\* registration, provisioning, discovery, fetch and push; a directory appears
\* only by the makedirs step of a handler, at the location of the identity the
\* handler works for, so that no identity ever has a second location.
C17_MonotonicUnique ==
    /\ [][/\ DOMAIN repos \subseteq DOMAIN repos'
          /\ DOMAIN repos' # DOMAIN repos
             => \E r \in Slots :
                   /\ reqs[r].pc = "makedirs"
                   /\ DOMAIN repos' = DOMAIN repos \cup {Location(reqs[r].username)}
       ]_vars
    /\ [](/\ DOMAIN repos \subseteq {Location(u) : u \in UrlNames}
          /\ \A u \in UrlNames : IsDir(RepoPath(u)) <=> Location(u) \in DOMAIN repos)

\* both identities have their directory; the one of the request's identity was
\* left by a provisioning that failed, and the server has been restarted since
C17_Witness ==
    /\ DOMAIN repos = {Location(alice), Location(carol)}
    /\ ADMIN_TOKEN # ""
    /\ \E r \in Slots :
          /\ Done(r) /\ reqs[r].kind = "info_refs" /\ reqs[r].status = 200
          /\ ~Provisioned(Location(reqs[r].username))
          /\ ~reqs[r].absent

\* the handler in slot r, a gateway request past its arrival, takes this step
GatewayStep(r) ==
    /\ reqs[r].kind \in Gateway /\ reqs[r].pc # "done"
    /\ reqs'[r] # reqs[r]

\* C18: a gateway request handled for identity A creates and modifies only
\* the directory at A's location and passes only that path to the plumbing
\* program: every other directory exists before the step iff it exists after
\* it, with the same HEAD, push-enable flag, hook and hook configuration,
\* while a request for another identity is in flight.
C18_FrameOtherIdentities ==
    [][\A r \in Slots :
         GatewayStep(r)
         => /\ \A path \in DOMAIN repos \cup DOMAIN repos' :
                  path # Location(reqs[r].username)
                  => /\ path \in DOMAIN repos /\ path \in DOMAIN repos'
                     /\ repos'[path] = repos[path]
            /\ reqs'[r].runs > reqs[r].runs
               => reqs'[r].repo = Location(reqs[r].username)]_vars

\* alice's push provisioned her repository and was answered while a request of
\* carol, whose repository creation is half done, is in flight
C18_Witness ==
    \E r \in Slots, q \in Slots :
       /\ Done(r) /\ reqs[r].kind = "receive_pack" /\ reqs[r].username = alice
       /\ reqs[r].made = CreationSteps /\ reqs[r].runs = 1
       /\ reqs[r].repo = Location(alice)
       /\ Provisioned(Location(alice))
       /\ reqs[q].kind = "info_refs" /\ reqs[q].username = carol
       /\ reqs[q].pc = "set_head"
       /\ IsDir(Location(carol)) /\ ~Provisioned(Location(carol))

\* the handler in slot r has called init_user_repo and the call has returned
InitReturned(r) ==
    /\ Done(r) /\ ~reqs[r].raised
    /\ \/ reqs[r].kind = "init_user_repo"
       \/ reqs[r].kind = "register" /\ reqs[r].status = 302
       \/ reqs[r].kind \in {"info_refs", "receive_pack"} /\ reqs[r].absent

\* C19: a call of init_user_repo that gets through repository creation runs
\* the hook installer, once, whether the repository existed before the call
\* or not; each install leaves the hook in place and a configuration file that
\* holds exactly the owning identity, the current callback base URL and the
\* current admin token, whatever the file held before.
C19_InstallEveryCall ==
    /\ [](\A r \in Slots :
            /\ InitReturned(r) => reqs[r].hooks = 1
            /\ reqs[r].pc = "hook" => IsDir(RepoPath(reqs[r].username)))
    /\ [][\A r \in Slots :
            (reqs[r].pc = "init_isdir" /\ reqs'[r].pc \notin {"init_isdir", "idle"}
             /\ IsDir(RepoPath(reqs[r].username)))
            => reqs'[r].pc = "hook"]_vars
    /\ [][\A r \in Slots :
            (reqs[r].pc = "hook" /\ reqs'[r].pc \notin {"hook", "idle"})
            => LET path == Location(reqs[r].username) IN
               /\ reqs'[r].hooks = reqs[r].hooks + 1
               /\ repos'[path].hook
               /\ repos'[path].conf =
                    [present |-> TRUE, LISTHUB_USERNAME |-> reqs[r].username,
                     LISTHUB_BASE_URL |-> BASE_URL,
                     LISTHUB_ADMIN_TOKEN |-> ADMIN_TOKEN]]_vars

\* init_user_repo was called on a repository that existed and has rewritten
\* its configuration with the settings of the restarted server, while the
\* other identity's file still holds the settings from before the restart
C19_Witness ==
    \E r \in Slots :
       /\ Done(r) /\ reqs[r].kind = "init_user_repo" /\ reqs[r].existed
       /\ reqs[r].hooks = 1 /\ reqs[r].username = alice
       /\ ADMIN_TOKEN = "admintok"
       /\ repos[Location(alice)].conf.LISTHUB_ADMIN_TOKEN = "admintok"
       /\ IsDir(Location(carol))
       /\ repos[Location(carol)].conf.present
       /\ repos[Location(carol)].conf.LISTHUB_ADMIN_TOKEN = ""

ToolchainSteps == {"git_init", "set_head", "set_flag"}

\* C20: when a toolchain step of repository creation (git init --bare, setting
\* HEAD to main, setting the push-enable flag) fails while a discovery or push
\* request is provisioning, the request is answered 500; it starts no plumbing
\* program and installs no hook, and the failing step removes nothing: the
\* directory and what the earlier steps did to it stay.
C20_CreationFailureFatal ==
    /\ [][\A r \in Slots :
            (/\ reqs[r].kind \in {"info_refs", "receive_pack"}
             /\ reqs[r].pc \in ToolchainSteps
             /\ reqs'[r].pc \notin ToolchainSteps \cup {"hook", "idle"})
            => /\ reqs'[r].pc = "done" /\ reqs'[r].status = 500
               /\ reqs'[r].raised
               /\ reqs'[r].runs = 0 /\ reqs'[r].hooks = 0
               /\ repos' = repos
               /\ IsDir(Location(reqs[r].username))]_vars
    /\ [](\A r \in Slots :
            (Done(r) /\ reqs[r].kind \in {"info_refs", "receive_pack"}
             /\ reqs[r].raised /\ "makedirs" \in reqs[r].made)
            => LET path == Location(reqs[r].username) IN
               /\ reqs[r].status = 500 /\ reqs[r].runs = 0 /\ reqs[r].hooks = 0
               /\ IsDir(path)
               /\ ~repos[path].hook /\ ~repos[path].conf.present
               /\ "git_init" \in reqs[r].made => repos[path].bare
               /\ "set_head" \in reqs[r].made
                  => repos[path].HEAD = "refs/heads/main")

\* a discovery request whose symbolic-ref step failed was answered 500: the
\* directory is a bare repository with HEAD on master, without hook
C20_Witness ==
    \E r \in Slots :
       /\ Done(r) /\ reqs[r].kind = "info_refs" /\ reqs[r].status = 500
       /\ reqs[r].raised /\ reqs[r].made = {"makedirs", "git_init"}
       /\ reqs[r].runs = 0 /\ reqs[r].hooks = 0
       /\ IsDir(Location(reqs[r].username))
       /\ repos[Location(reqs[r].username)].bare
       /\ repos[Location(reqs[r].username)].HEAD = "refs/heads/master"
       /\ ~repos[Location(reqs[r].username)].hook

\* the alphanumeric characters of s, in their order
RECURSIVE KeepAlnum(_)
KeepAlnum(s) ==
    IF s = <<>> THEN <<>>
    ELSE IF Head(s) \in Lowercase \cup Uppercase \cup Digits
         THEN <<Head(s)>> \o KeepAlnum(Tail(s))
         ELSE KeepAlnum(Tail(s))

\* path is a direct child of the repository root: the root, one separator and
\* a name without separator that is neither '.' nor '..'
DirectChild(path) ==
    LET n == Len(REPO_ROOT)
        name == SubSeq(path, n + 2, Len(path))
    IN /\ Len(path) > n + 1
       /\ SubSeq(path, 1, n) = REPO_ROOT
       /\ path[n + 1] = "/"
       /\ \A i \in 1..Len(name) : name[i] # "/"
       /\ name \notin {<<".">>, <<".", ".">>}

\* C21: for every username, crafted ones with dots and slashes or without
\* alphanumeric character included, the repository path is the root, a
\* separator, the username's alphanumeric characters in their order and
\* '.git': a direct child of the root; every directory that exists and every
\* path a call of init_user_repo returns is such a path of its username.
C21_PathInsideRoot ==
    /\ \A username \in CraftedNames \cup UrlNames \cup RawUsernames :
          /\ RepoPath(username) =
               REPO_ROOT \o <<"/">> \o KeepAlnum(username) \o <<".", "g", "i", "t">>
          /\ DirectChild(RepoPath(username))
    /\ \A path \in DOMAIN repos : DirectChild(path)
    /\ \A r \in Slots :
          reqs[r].ret # <<>>
          => /\ DirectChild(reqs[r].ret)
             /\ reqs[r].ret = REPO_ROOT \o <<"/">> \o KeepAlnum(reqs[r].username)
                                \o <<".", "g", "i", "t">>

\* init_user_repo('/etc') has returned <root>/etc.git, which exists, and
\* init_user_repo('..') has made <root>/.git
C21_Witness ==
    \E r \in Slots :
       /\ Done(r) /\ reqs[r].kind = "init_user_repo"
       /\ reqs[r].username = <<"/", "e", "t", "c">>
       /\ reqs[r].ret = <<"/", "r", "/", "e", "t", "c", ".", "g", "i", "t">>
       /\ IsDir(reqs[r].ret)
       /\ IsDir(<<"/", "r", "/", ".", "g", "i", "t">>)

\* the position of a statement in the text of a handler
Rank(pc) ==
    CASE pc = "idle" -> 0 [] pc = "auth" -> 1 [] pc = "service" -> 2
      [] pc = "isdir" -> 3 [] pc = "init_isdir" -> 4 [] pc = "makedirs" -> 5
      [] pc = "git_init" -> 6 [] pc = "set_head" -> 7 [] pc = "set_flag" -> 8
      [] pc = "hook" -> 9 [] pc = "spawn" -> 10 [] pc = "wait" -> 11
      [] OTHER -> 12

\* the plumbing invocation failed, as the endpoint judges it
PlumbingFailed(req) ==
    IF req.kind = "info_refs" THEN req.rc # 0
    ELSE req.rc # 0 /\ req.stdout = <<>>

\* C22: no retries: a gateway request starts the plumbing program at most
\* once and never goes back to a statement it has passed; a creation step
\* that fails ends the request with 500 at once, a plumbing program that
\* fails ends it with 500 and the diagnostic at once.
C22_NoRetries ==
    /\ [](\A r \in Slots : reqs[r].kind \in Gateway => reqs[r].runs <= 1)
    /\ [][\A r \in Slots :
            (/\ reqs[r].kind \in Gateway /\ reqs'[r] # reqs[r]
             /\ reqs'[r].pc # "idle")
            => /\ Rank(reqs'[r].pc) > Rank(reqs[r].pc)
               /\ (reqs[r].pc \in CreationSteps
                   /\ Rank(reqs'[r].pc) # Rank(reqs[r].pc) + 1)
                  => /\ reqs'[r].pc = "done" /\ reqs'[r].status = 500
                     /\ reqs'[r].raised /\ reqs'[r].runs = 0
               /\ reqs[r].pc = "wait"
                  => /\ reqs'[r].pc = "done" /\ reqs'[r].runs = 1
                     /\ PlumbingFailed(reqs'[r])
                        => /\ reqs'[r].status = 500
                           /\ reqs'[r].body[2] = reqs'[r].stderr]_vars

\* a discovery request provisioned the repository, its plumbing program
\* failed, and it was answered 500 after that one invocation
C22_Witness ==
    \E r \in Slots :
       /\ Done(r) /\ reqs[r].kind = "info_refs" /\ reqs[r].absent
       /\ reqs[r].made = CreationSteps /\ reqs[r].hooks = 1
       /\ reqs[r].runs = 1 /\ reqs[r].rc # 0
       /\ reqs[r].status = 500 /\ reqs[r].body[2] = reqs[r].stderr

\* C23: a handler that has started the plumbing program leaves its wait only
\* when proc.communicate() returns, i.e. when the subprocess has exited: there
\* is no timeout, so while the subprocess does not exit the request gets no
\* response; and every request gets its response provided each subprocess it
\* starts exits.
C23_BlocksUntilExit ==
    /\ [][\A r \in Slots :
            (reqs[r].pc = "wait" /\ reqs'[r] # reqs[r])
            => /\ Exits(r)
               /\ Done(r)' /\ reqs'[r].runs = 1]_vars
    /\ [](\A r \in Slots :
            (Done(r) /\ reqs[r].kind \in Gateway /\ reqs[r].status = 200)
            => reqs[r].runs = 1)
    /\ \A r \in Sequential :
          (reqs[r].kind \in Gateway /\ ~Done(r)) ~> Done(r)

\* a fetch POST was answered 200 after its one subprocess had exited
C23_Witness ==
    \E r \in Slots :
       /\ Done(r) /\ reqs[r].kind = "upload_pack" /\ reqs[r].status = 200
       /\ reqs[r].runs = 1 /\ reqs[r].repo = Location(alice)
       /\ reqs[r].stdout # <<>>

\* the step changes at most the admin token and what _install_hook writes
\* (the hook and the contents of listhub.conf)
SecretOnlyStep ==
    /\ user' = user /\ api_key' = api_key /\ BASE_URL' = BASE_URL
    /\ itemVars' = itemVars
    /\ DOMAIN repos' = DOMAIN repos
    /\ \A path \in DOMAIN repos :
          [repos'[path] EXCEPT !.conf = NoConf, !.hook = FALSE]
             = [repos[path] EXCEPT !.conf = NoConf, !.hook = FALSE]
    /\ \/ ADMIN_TOKEN' # ADMIN_TOKEN
       \/ \E path \in DOMAIN repos : repos'[path].conf # repos[path].conf

\* C24: no gateway response depends on the admin token: between two states
\* that differ only in the configured token and in the hook configurations
\* written with it, every request (any Basic pair, any identity of the path)
\* gets the same decision of _require_auth and of the directory test and the
\* same response from the same result of the plumbing program; and no header
\* or body of a response carries the token.
C24_SecretNeverInResponse ==
    /\ [][SecretOnlyStep
          => /\ \A username \in UrlNames \cup {bob}, auth \in AuthInputs :
                   RequireAuthStatus(username, auth)'
                     = RequireAuthStatus(username, auth)
             /\ \A username \in UrlNames :
                   IsDir(RepoPath(username))' = IsDir(RepoPath(username))
             /\ \A service \in Services, rc \in ExitCodes, out \in Outputs,
                   err \in Diagnostics :
                   /\ InfoRefsResponse(service, rc, out, err)'
                        = InfoRefsResponse(service, rc, out, err)
                   /\ RunGitServiceResponse(service, rc, out, err)'
                        = RunGitServiceResponse(service, rc, out, err)]_vars
    /\ [](\A r \in Slots :
            (Done(r) /\ reqs[r].kind \in Gateway /\ ADMIN_TOKEN # "")
            => /\ reqs[r].www_authenticate # ADMIN_TOKEN
               /\ \A i \in 1..Len(reqs[r].body) : reqs[r].body[i] # ADMIN_TOKEN
               /\ \A i \in 1..Len(reqs[r].content_type) :
                     reqs[r].content_type[i] # ADMIN_TOKEN
               /\ (reqs[r].auth.password = ADMIN_TOKEN
                   /\ reqs[r].auth.password # "S3cret!!")
                  => reqs[r].status = 401)

\* a discovery request was answered 200 on a repository whose hook
\* configuration holds a token that has been replaced since
C24_Witness ==
    \E r \in Slots :
       /\ Done(r) /\ reqs[r].kind = "info_refs" /\ reqs[r].status = 200
       /\ ADMIN_TOKEN = "othertok"
       /\ IsDir(Location(alice))
       /\ repos[Location(alice)].conf.LISTHUB_ADMIN_TOKEN = "admintok"

\* what a client sees of the response of the handler in slot r
ResponseOf(req) ==
    [status |-> req.status, www_authenticate |-> req.www_authenticate,
     content_type |-> req.content_type, body |-> req.body]

\* C25: a caller with a valid credential for A who addresses the path of
\* another identity X gets one and the same response, the 403 page, whether X
\* is registered or not and whether X's repository exists or not; a 404 is
\* given only to a fetch of the authenticated owner of the absent repository.
C25_ExistenceNotLeaked ==
    /\ [][\A r \in Slots :
            AuthStep(r) =>
              \A u \in user :
                 (ValidCredential(reqs[r].auth, u) /\ u.username # reqs[r].username)
                 => /\ Done(r)'
                    /\ ResponseOf(reqs'[r]) =
                         [status |-> 403, www_authenticate |-> "",
                          content_type |-> <<>>, body |-> <<"error.html", "403">>]
                    /\ repos' = repos]_vars
    /\ [](\A r \in Slots :
            (Done(r) /\ reqs[r].kind \in Gateway /\ reqs[r].status = 404)
            => /\ reqs[r].kind = "upload_pack" /\ reqs[r].absent
               /\ \E u \in user : /\ ValidCredential(reqs[r].auth, u)
                                  /\ u.username = reqs[r].username)

\* alice's valid credential on the path of carol, who is registered and has a
\* provisioned repository, was answered 403
C25_Witness ==
    \E r \in Slots :
       /\ Done(r) /\ reqs[r].kind = "upload_pack" /\ reqs[r].status = 403
       /\ reqs[r].username = carol /\ reqs[r].auth.username = alice
       /\ ValidCredential(reqs[r].auth, get_by_username(alice))
       /\ get_by_username(carol) # None
       /\ Provisioned(Location(carol))

\* C26 as stated: under every interleaving of concurrent requests for one
\* identity, no handler starts a plumbing program on a repository that is only
\* partially provisioned (or absent), and the creation steps are run by at
\* most one of the requests in flight.
C26_NoRaceOnProvisioning ==
    /\ \A r \in Slots :
          reqs[r].kind \in Gateway => ~reqs[r].ranPartial /\ ~reqs[r].ranAbsent
    /\ \A r \in Slots, q \in Slots :
          (/\ r # q
           /\ reqs[r].kind \in Gateway \cup {"register"}
           /\ reqs[q].kind \in Gateway \cup {"register"}
           /\ reqs[r].username = reqs[q].username)
          => reqs[r].made = {} \/ reqs[q].made = {}

\* the call in slot r made the directory at path itself and is still creating
Creating(r, path) ==
    /\ reqs[r].pc \in ToolchainSteps
    /\ RepoPath(reqs[r].username) = path

\* the results of bare init, HEAD -> main and the push-enable step
Created(dir) == <<dir.bare, dir.HEAD, dir.receivepack>>

\* a directory exists on which a creation step is missing
Partial(path) ==
    /\ IsDir(path)
    /\ ~(repos[path].bare /\ repos[path].HEAD = "refs/heads/main"
         /\ repos[path].receivepack)

\* C27: the existence of the directory alone decides whether a repository is
\* provisioned.  Outside the call that made it, no step of a provisioning call
\* or of an endpoint removes an existing directory or changes what bare init,
\* HEAD -> main and the push-enable step have or have not done to it, so a
\* repository a failed attempt left partial stays partial; an endpoint that
\* finds the directory runs no creation step and no hook install and leaves
\* the repositories untouched.
C27_DirectoryAloneDecides ==
    /\ [][\A path \in DOMAIN repos :
            (\A r \in Slots : ~Creating(r, path))
            => /\ path \in DOMAIN repos'
               /\ Created(repos'[path]) = Created(repos[path])]_vars
    /\ [][\A r \in Slots :
            (/\ reqs[r].kind \in Gateway /\ ~reqs[r].absent
             /\ reqs[r].pc \in {"spawn", "wait"})
            => repos' = repos]_vars
    /\ [](\A r \in Slots :
            /\ (reqs[r].kind \in Gateway /\ ~reqs[r].absent
                /\ reqs[r].pc \in {"spawn", "wait", "done"})
               => reqs[r].made = {} /\ reqs[r].hooks = 0
            /\ (reqs[r].existed /\ reqs[r].pc \notin {"idle"})
               => reqs[r].made = {})

\* a push POST found the directory a failed attempt had left without
\* HEAD -> main, ran the plumbing program on it and was answered; the
\* repository is still partial and still has no hook configuration
C27_Witness ==
    \E r \in Slots :
       /\ Done(r) /\ reqs[r].kind = "receive_pack" /\ ~reqs[r].absent
       /\ reqs[r].runs = 1 /\ reqs[r].hooks = 0
       /\ Partial(RepoPath(reqs[r].username))
       /\ repos[RepoPath(reqs[r].username)].bare
       /\ ~repos[RepoPath(reqs[r].username)].conf.present

\* C28: every registered username is lower-case, alphanumeric and at least 2
\* characters long, and path sanitization leaves it unchanged; two registered
\* identities with different usernames have different repository paths; the
\* path a gateway request provisions and passes to the plumbing program is
\* the location named after the authenticated identity's own username.
C28_RegisteredNamesKeepPath ==
    /\ \A u \in user :
          /\ Len(u.username) >= 2 /\ IsAlnum(u.username)
          /\ Lower(u.username) = u.username
          /\ Safe(u.username) = u.username
          /\ RepoPath(u.username) = Location(u.username)
    /\ \A u \in user, v \in user :
          u.username # v.username => RepoPath(u.username) # RepoPath(v.username)
    /\ \A r \in Slots :
          (reqs[r].kind \in Gateway /\ (reqs[r].runs > 0 \/ reqs[r].ret # <<>>))
          => /\ \E u \in user : ValidCredential(reqs[r].auth, u)
             /\ \A u \in user :
                   ValidCredential(reqs[r].auth, u)
                   => /\ reqs[r].runs > 0 => reqs[r].repo = Location(u.username)
                      /\ reqs[r].ret # <<>> => reqs[r].ret = Location(u.username)

\* ab and alice are registered, each has a repository, and a push discovery by
\* ab was answered from ab's repository
C28_Witness ==
    /\ {u.username : u \in user} = {ab, alice}
    /\ DOMAIN repos = {Location(ab), Location(alice)}
    /\ \E r \in Slots :
          /\ Done(r) /\ reqs[r].kind = "info_refs" /\ reqs[r].status = 200
          /\ reqs[r].auth.username = ab
          /\ reqs[r].repo = Location(ab)

\* the rows of item_version that belong to the item, oldest first
VersionsOf(id) == SelectSeq(item_version, LAMBDA v : v.item_id = id)

\* C29 as stated: after every sequence of create, content-edit and append
\* operations, interleaved ones included, the version rows of every item carry
\* pairwise distinct revisions that form 1..revision (one more for every
\* completed edit or append), and the newest row holds the item's content.
C29_RevisionsFormHistory ==
    \A id \in DOMAIN item :
       LET rows == VersionsOf(id) IN
       /\ \A i \in 1..Len(rows), j \in 1..Len(rows) :
             i # j => rows[i].revision # rows[j].revision
       /\ {rows[i].revision : i \in 1..Len(rows)} = 1..item[id].revision
       /\ Len(rows) > 0 /\ rows[Len(rows)].content = item[id].content

\* the tags and the shares of an item
TagsOf(id) == {t \in item_tag : t[1] = id}

SharesOf(id) == {s \in share : s.item_id = id}

\* the request addresses an item that exists and is owned by another identity
\* than the one the request is resolved to
Foreign(req) ==
    /\ req.item_id \in DOMAIN item
    /\ item[req.item_id].owner_id # get_current_api_user(req).id

\* no step taken while the handler in slot r works removes or changes an item of
\* another identity than the handler's, or that item's tags, versions or shares
ForeignUntouched(r) ==
    (reqs[r].kind \in ItemOps /\ reqs[r].pc \notin {"idle", "done"})
    => \A id \in DOMAIN item :
          item[id].owner_id # get_current_api_user(reqs[r]).id
          => /\ id \in DOMAIN item'
             /\ item'[id] = item[id]
             /\ TagsOf(id)' = TagsOf(id)
             /\ VersionsOf(id)' = VersionsOf(id)
             /\ SharesOf(id)' = SharesOf(id)

\* the credential is an API key without the write scope
LacksWriteScope(req) ==
    req.session = <<>> /\ req.api_user # None /\ "write" \notin req.api_scopes

\* C30 as stated: every item operation that addresses an item owned by
\* another identity than the resolved one, whether resolved by session, API
\* key or admin token with asserted identity, is answered 404 and leaves the
\* item, its tags, versions and shares unchanged.
C30_ForeignItem404 ==
    /\ [][\A r \in Slots : ForeignUntouched(r)]_vars
    /\ [](\A r \in Slots :
            (/\ Done(r) /\ reqs[r].kind \in ItemOps \ {"create_item"}
             /\ reqs[r].status # 401 /\ Foreign(reqs[r]))
            => reqs[r].status = 404)

\* C30, amended: every item operation that addresses an item owned by another
\* identity than the resolved one is answered 404, or 403 when the operation
\* writes and the credential is an API key without the write scope, and
\* leaves the item, its tags, versions and shares unchanged.
C30_ForeignItemRefused ==
    /\ [][\A r \in Slots : ForeignUntouched(r)]_vars
    /\ [](\A r \in Slots :
            (/\ Done(r) /\ reqs[r].kind \in ItemOps \ {"create_item"}
             /\ reqs[r].status # 401 /\ Foreign(reqs[r]))
            => \/ reqs[r].status = 404
               \/ /\ reqs[r].status = 403 /\ reqs[r].kind \in WriteOps
                  /\ LacksWriteScope(reqs[r]))

\* the admin token with the name carol asked to delete alice's item, which has
\* a tag, a version and a share, and was answered 404
C30_Witness ==
    \E r \in Slots :
       /\ Done(r) /\ reqs[r].kind = "delete_item" /\ reqs[r].status = 404
       /\ reqs[r].authorization = Bearer(ADMIN_TOKEN) /\ reqs[r].hdr = carol
       /\ Foreign(reqs[r])
       /\ item[reqs[r].item_id].owner_id = alice
       /\ TagsOf(reqs[r].item_id) # {}
       /\ Len(VersionsOf(reqs[r].item_id)) > 1
       /\ SharesOf(reqs[r].item_id) # {}

====
